---- MODULE Spec2Model ----
(***************************************************************************)
(* Model of the data layer of the personal-investment dashboard:           *)
(*   src/src/data/store.py          DataStore (SQLite tables)              *)
(*   src/src/data/batch_updater.py  BatchUpdater.update_price_history      *)
(*   src/src/data/market_data.py    MarketDataFetcher.fetch_data           *)
(*   src/src/data/fundamental_data.py  FundamentalDataFetcher              *)
(*   src/src/engines/stock_selection_engine.py  rank_stocks, rank_magic_formula *)
(*   src/src/utils/scheduler.py     SyncScheduler                          *)
(*   src/src/engines/backtest_engine.py   BacktestEngine, strategies       *)
(*   src/src/engines/strategy_registry.py Strategy classes                 *)
(*                                                                         *)
(* Dates are day numbers: the 'YYYY-MM-DD' strings the code stores compare *)
(* as text exactly as the days they name compare as numbers.               *)
(*                                                                         *)
(* Specifications:                                                         *)
(*   SpecStore  calls of DataStore.save_market_data on arbitrary frames    *)
(*   Spec       price synchronisation: update_price_history (coordinator,  *)
(*              pool workers, wall clock) and fetch_data                   *)
(*   SpecPool   one call of update_price_history with slow tasks           *)
(*   SpecFund   BatchUpdater.update_fundamentals_and_info                  *)
(*   SpecRank   ranking runs and the ranking history                       *)
(*   SpecRead   the batched reads of DataStore                             *)
(*   SpecTx     the upsert calls as concurrent sqlite transactions         *)
(*   SpecSched  SyncScheduler: start, stop and the loop thread             *)
(*   SpecBacktest  BacktestEngine.run, optimize, calculate_metrics and     *)
(*              the strategies, over reloaded price frames                 *)
(*   SpecFactors   calculate_factors (Altman Z-Score) and                  *)
(*              rank_magic_formula over stored fundamentals                *)
(*   SpecOverlay   check_trend_setup and the overlay of rank_stocks        *)
(*   SpecSchedFair SpecSched with the loop threads scheduled and time      *)
(*              passing (weak fairness)                                    *)
(***************************************************************************)
EXTENDS Integers, Sequences, FiniteSets, TLC

VARIABLES
    market_data,    \* table market_data: set of rows, PRIMARY KEY (ticker, date)
    sync_log,       \* table sync_log: set of rows, PRIMARY KEY ticker
    st_op,          \* SpecStore: the last call made ("none", "save", "repeat")
    st_ticker,      \* SpecStore: ticker of the last save_market_data call
    st_df,          \* SpecStore: DataFrame of the last save_market_data call
    st_before,      \* SpecStore: market_data before the first call with these arguments
    st_once,        \* SpecStore: market_data after the first call with these arguments
    st_raised,      \* SpecStore: the last call raised
    today,          \* wall clock: the current day, datetime.now().date()
    pc,             \* update_price_history: "idle", "submitted", "loop", "returned"
    latest_dates,   \* update_price_history: latest_dates, ticker -> date or None
    tasks,          \* update_price_history: tasks, in submission order
    futures,        \* the futures of the tasks, by task index
    elapsed,        \* seconds since the tasks were submitted (saturating past the timeout)
    finished_init,  \* as_completed: futures already finished when it was called
    finished_order, \* as_completed: futures finished since, in finishing order
    handled,        \* task indices in the order the loop body ran for them
    skipped_tickers,\* update_price_history: skipped_tickers
    success_count,  \* update_price_history: success_count
    call_raised,    \* where the call of update_price_history raised: "no", "loop", "log"
    call_tickers,   \* history: the tickers argument of the call
    cached_at_start,\* history: each ticker's latest bar date when the call began
    downloads,      \* history: yf.download calls made for each ticker in this call
    fundamentals,   \* table fundamentals: PRIMARY KEY (ticker, report_date, metric)
    stock_info,     \* table stock_info: PRIMARY KEY ticker
    fi_pc,          \* update_fundamentals_and_info: "idle", "submitted", "loop", "returned"
    fi_tickers,     \* update_fundamentals_and_info: tickers
    fi_futures,     \* the futures of _fetch_single_ticker_info, by position in tickers
    fi_finished_init,  \* as_completed: futures already finished when it was called
    fi_finished_order, \* as_completed: futures finished since, in finishing order
    fi_handled,     \* positions in the order the loop body ran for them
    ranking_history,\* table ranking_history: PRIMARY KEY (strategy, date, ticker)
    rk_last,        \* the last ranking run: its strategy, day, returned frame, prev_ranks
    rk_runs,        \* ranking runs made so far
    rd,             \* the last batched read: function, arguments, result
    conns,          \* the sqlite connection of each thread's current upsert call
    config,         \* the content of sync_config.json: enabled, time (a clock minute)
    running,        \* SyncScheduler.running
    thread,         \* SyncScheduler.thread: the id of the Thread object, 0 for None
    sched_status,   \* SyncScheduler.status
    threads,        \* the loop threads ever started, by id: where each one is
    clock,          \* wall clock of the scheduler, in units of 10 seconds
    sched_calls,    \* calls of start() and stop() made so far
    sched_op,       \* the last call of start() or stop() and what it found
    triggers,       \* history: the (thread, clock minute) pairs of the syncs triggered
    bt_df,          \* backtest: the price frame df (its 'close' column, oldest bar first)
    bt_prev,        \* backtest: the call of BacktestEngine.run before the last, same strategy
    bt_last,        \* backtest: the last call of run, optimize or calculate_metrics
    fx,             \* factor engine: the last scoring call, the latest line items and
                    \* closes it reads (stored, prices) and its result
    ta              \* technical overlay: the last check_trend_setup call and its result

storeVars == <<st_op, st_ticker, st_df, st_before, st_once, st_raised>>
syncVars == <<today, pc, latest_dates, tasks, futures, elapsed, finished_init,
              finished_order, handled, skipped_tickers, success_count, call_raised,
              call_tickers, cached_at_start, downloads>>
fundVars == <<fundamentals, stock_info, fi_pc, fi_tickers, fi_futures,
              fi_finished_init, fi_finished_order, fi_handled>>
rankVars == <<ranking_history, rk_last, rk_runs>>
schedVars == <<config, running, thread, sched_status, threads, clock, sched_calls, sched_op, triggers>>
calcVars == <<bt_df, bt_prev, bt_last, fx, ta>>
extVars == <<fundVars, rankVars, rd, conns, schedVars, calcVars>>
baseVars == <<market_data, sync_log, storeVars, syncVars>>
\* What the actions of each component leave alone
fundOut == <<baseVars, rankVars, rd, conns, schedVars, calcVars>>
rankOut == <<market_data, sync_log, storeVars, fundVars, rd, conns, schedVars, calcVars>>

----------------------------------------------------------------------------
(* Bounds *)

MaxRows == 2
MaxDay == 2

\* A sorted ticker list, as the callers pass
TickerOrder == <<"AAPL", "MSFT">>
Tickers == {TickerOrder[i] : i \in DOMAIN TickerOrder}
\* Two dates: rows of a frame fall on the same date or on different ones
StoreDays == {1, 2}

\* float NaN of a pandas column
NaN == "NaN"
\* None for a missing date (no day is negative)
NoDate == 0 - 1

\* pandas Timestamps of a frame's index: a day and a time of day
Hours == {0, 12}
Closes == {"c1", "c2"}
Volumes == {NaN, "100"}

----------------------------------------------------------------------------
(* DataStore *)

\* row['date'].strftime('%Y-%m-%d'): the time of day is dropped
strftime(ts) == ts.day

\* One row of the executemany: INSERT OR REPLACE on PRIMARY KEY (ticker, date)
InsertOrIgnore(table, rec) ==
    IF \E r \in table : r.ticker = rec.ticker /\ r.date = rec.date
    THEN table
    ELSE table \cup {rec}

InsertOrReplace(table, rec) ==
    {r \in table : ~(r.ticker = rec.ticker /\ r.date = rec.date)} \cup {rec}

RECURSIVE executemany(_, _)
executemany(table, records) ==
    IF records = <<>> THEN table
    ELSE executemany(InsertOrReplace(table, Head(records)), Tail(records))

\* The tuple save_market_data builds for one row of the frame
MarketRecord(ticker, row) ==
    [ticker |-> ticker, date |-> strftime(row.ts),
     close |-> row.close, volume |-> row.volume]

\* save_market_data(ticker, df).  dbOk = FALSE: sqlite raises (connect,
\* executemany or commit), nothing is committed.  int() of a NaN volume raises
\* ValueError while the records are built, before the connection is opened.
save_market_data(table, ticker, df, dbOk) ==
    IF df = <<>> THEN [table |-> table, raised |-> FALSE]
    ELSE IF \E i \in DOMAIN df : df[i].volume = NaN
         THEN [table |-> table, raised |-> TRUE]
    ELSE IF ~dbOk THEN [table |-> table, raised |-> TRUE]
    ELSE [table |-> executemany(table, [i \in DOMAIN df |-> MarketRecord(ticker, df[i])]),
          raised |-> FALSE]

\* SELECT MAX(date) FROM market_data WHERE ticker = ?
get_latest_date(table, ticker) ==
    LET ds == {r.date : r \in {x \in table : x.ticker = ticker}}
    IN IF ds = {} THEN NoDate ELSE CHOOSE d \in ds : \A e \in ds : e <= d

----------------------------------------------------------------------------
(* SpecStore: save_market_data called with arbitrary frames *)

StoreRows ==
    {r \in [ts : [day : StoreDays, hour : Hours], close : Closes, volume : Volumes] :
        r.volume = NaN => r.close = "c1"}

\* Tables a database file can hold when the call is made
StoredRow(ticker, day) ==
    [ticker |-> ticker, date |-> day, close |-> "c1", volume |-> "100"]
StoreTables ==
    {{StoredRow(k[1], k[2]) : k \in K} : K \in SUBSET (Tickers \X StoreDays)}

StoreFrames == UNION {[1..n -> StoreRows] : n \in 0..MaxRows}

\* No call of update_fundamentals_and_info is running and none has run
FundQuiet ==
    /\ fundamentals = {}
    /\ stock_info = {}
    /\ fi_pc = "idle"
    /\ fi_tickers = <<>>
    /\ fi_futures = <<>>
    /\ fi_finished_init = {}
    /\ fi_finished_order = <<>>
    /\ fi_handled = <<>>

\* No ranking was ever run
NoRun == [op |-> "none", strategy |-> "none", day |-> 0, df |-> <<>>,
          prev |-> <<>>, before |-> {}]
RankQuiet ==
    /\ ranking_history = {}
    /\ rk_last = NoRun
    /\ rk_runs = 0

\* No batched read was made
NoRead == [fn |-> "none", tickers |-> <<>>, metrics |-> <<>>, storage |-> "ok",
           result |-> <<>>, raised |-> FALSE]

\* The threads that write to the database: two workers of the pool of
\* update_fundamentals_and_info and the thread of the caller
TxThreads == {"pool-1", "pool-2", "main"}
NoCall == [state |-> "closed", kind |-> "none", records |-> <<>>, done |-> 0,
           raised |-> FALSE]
TxQuiet == conns = [c \in TxThreads |-> NoCall]

\* SyncScheduler.__init__: nothing runs, the configuration file is the
\* default one (disabled)
SchedQuiet ==
    /\ config = [enabled |-> FALSE, time |-> 1]
    /\ running = FALSE
    /\ thread = 0
    /\ sched_status = "Stopped"
    /\ threads = <<>>
    /\ clock = 0
    /\ sched_calls = 0
    /\ sched_op = "none"
    /\ triggers = {}

\* The components other than the bar store and the price synchronisation
\* are at rest
\* No call of the engines (backtest, factors, technical overlay) was made
NoCalc == [op |-> "none"]
CalcQuiet ==
    /\ bt_df = <<>>
    /\ bt_prev = NoCalc
    /\ bt_last = NoCalc
    /\ fx = NoCalc
    /\ ta = NoCalc

ExtQuiet ==
    /\ FundQuiet
    /\ RankQuiet
    /\ rd = NoRead
    /\ TxQuiet
    /\ SchedQuiet
    /\ CalcQuiet

\* No synchronisation is running and none has run
SyncQuiet ==
    /\ sync_log = {}
    /\ today = 1
    /\ pc = "idle"
    /\ latest_dates = [t \in Tickers |-> NoDate]
    /\ tasks = <<>>
    /\ futures = <<>>
    /\ elapsed = 0
    /\ finished_init = {}
    /\ finished_order = <<>>
    /\ handled = <<>>
    /\ skipped_tickers = <<>>
    /\ success_count = 0
    /\ call_raised = "no"
    /\ call_tickers = {}
    /\ cached_at_start = [t \in Tickers |-> NoDate]
    /\ downloads = [t \in Tickers |-> 0]

InitStore ==
    /\ market_data \in StoreTables
    /\ st_op = "none"
    /\ st_ticker = TickerOrder[1]
    /\ st_df = <<>>
    /\ st_before = market_data
    /\ st_once = market_data
    /\ st_raised = FALSE
    /\ SyncQuiet
    /\ ExtQuiet

\* A call of save_market_data(ticker, df)
StoreSave(ticker, df) ==
    LET res == save_market_data(market_data, ticker, df, TRUE) IN
    /\ st_op = "none"
    /\ market_data' = res.table
    /\ st_op' = "save"
    /\ st_ticker' = ticker
    /\ st_df' = df
    /\ st_before' = market_data
    /\ st_once' = res.table
    /\ st_raised' = res.raised
    /\ UNCHANGED <<extVars, sync_log, syncVars>>

\* The same call again, with identical rows
StoreRepeat ==
    LET res == save_market_data(market_data, st_ticker, st_df, TRUE) IN
    /\ st_op \in {"save", "repeat"}
    /\ market_data' = res.table
    /\ st_op' = "repeat"
    /\ st_raised' = res.raised
    /\ UNCHANGED <<extVars, st_ticker, st_df, st_before, st_once, sync_log, syncVars>>

NextStore ==
    \/ \E t \in Tickers, df \in StoreFrames : StoreSave(t, df)
    \/ StoreRepeat

vars == <<market_data, sync_log, storeVars, syncVars, extVars>>

SpecStore == InitStore /\ [][NextStore]_vars

----------------------------------------------------------------------------
(* C1 *)

KeyOf(ticker, row) == <<ticker, strftime(row.ts)>>
RowKey(r) == <<r.ticker, r.date>>
FrameKeys(ticker, df) == {KeyOf(ticker, df[i]) : i \in DOMAIN df}

PrimaryKeyHolds(table) ==
    \A r1, r2 \in table : RowKey(r1) = RowKey(r2) => r1 = r2

\* C1: bar upsert is idempotent.  After save_market_data has been called a
\* second time (or more) with the same ticker and identical rows, market_data
\* is exactly what it was after the first call; the table holds one row per
\* (ticker, date); after a call that did not raise, each (ticker, date) of the
\* frame holds the values of the frame's last row for that date and every other
\* row is as it was before; and a call with an empty frame changes nothing.
C1_UpsertIdempotent ==
    /\ PrimaryKeyHolds(market_data)
    /\ st_op = "repeat" => market_data = st_once
    /\ (st_op # "none" /\ ~st_raised) =>
         /\ \A i \in DOMAIN st_df :
              (\A j \in DOMAIN st_df : j > i => KeyOf(st_ticker, st_df[j]) # KeyOf(st_ticker, st_df[i]))
                => MarketRecord(st_ticker, st_df[i]) \in market_data
         /\ \A r \in st_before :
              RowKey(r) \notin FrameKeys(st_ticker, st_df) => r \in market_data
         /\ \A r \in market_data :
              r \in st_before \/ RowKey(r) \in FrameKeys(st_ticker, st_df)
    /\ (st_op # "none" /\ st_df = <<>>) => (market_data = st_before /\ ~st_raised)
    /\ (st_op # "none" /\ st_raised) => market_data = st_before

\* A frame with two rows of one date (different times of day, different closes)
\* was saved twice over an existing row of that date and of another ticker
C1_Witness ==
    /\ st_op = "repeat"
    /\ ~st_raised
    /\ Len(st_df) = 2
    /\ KeyOf(st_ticker, st_df[1]) = KeyOf(st_ticker, st_df[2])
    /\ st_df[1].close # st_df[2].close
    /\ \E r \in st_before : RowKey(r) = KeyOf(st_ticker, st_df[1]) /\ r.close # st_df[2].close
    /\ \E r \in st_before : r.ticker # st_ticker

----------------------------------------------------------------------------
(* DataStore: batched latest dates and the sync log *)

\* get_latest_dates(tickers): {} for an empty list and when the query fails;
\* tickers without rows are absent from the dict (dict.get gives None)
get_latest_dates(table, tickers, dbOk) ==
    IF tickers = <<>> \/ ~dbOk
    THEN [t \in Tickers |-> NoDate]
    ELSE [t \in Tickers |->
            IF \E i \in DOMAIN tickers : tickers[i] = t
            THEN get_latest_date(table, t) ELSE NoDate]

RECURSIVE log_insert_or_replace(_, _, _)
log_insert_or_replace(table, tickers, status) ==
    IF tickers = <<>> THEN table
    ELSE log_insert_or_replace(
            {r \in table : r.ticker # Head(tickers)}
                \cup {[ticker |-> Head(tickers), status |-> status]},
            Tail(tickers), status)

\* save_sync_status(tickers, status): INSERT OR REPLACE on PRIMARY KEY ticker.
\* The column last_attempt is not modelled.
save_sync_status(table, tickers, status, dbOk) ==
    IF tickers = <<>> THEN [table |-> table, raised |-> FALSE]
    ELSE IF ~dbOk THEN [table |-> table, raised |-> TRUE]
    ELSE [table |-> log_insert_or_replace(table, tickers, status), raised |-> FALSE]

----------------------------------------------------------------------------
(* The market-data provider (yfinance) *)

Days == 0..MaxDay

\* What the provider has when asked: it raises, it answers with no rows, or it
\* has a bar for every day before today, and also today's unfinished bar when
\* live.  The last bar it returns is well formed ("ok"), has a NaN volume
\* ("nanvol"), or has no value at all ("allnan").
ProviderAnswers ==
    [kind : {"raise", "empty"}, live : {FALSE}, last : {"ok"}]
        \cup [kind : {"bars"}, live : BOOLEAN, last : {"ok", "nanvol", "allnan"}]

\* First day of period='2y' / '5y' back from today (day 0 is the first bar)
PeriodStart(period, day) ==
    LET n == IF period = "2y" THEN 730 ELSE 1825
    IN IF day - n < 0 THEN 0 ELSE day - n

ProviderRow(d, kind) ==
    [ts |-> [day |-> d, hour |-> 0],
     close |-> IF kind = "allnan" THEN NaN ELSE "c1",
     volume |-> IF kind = "ok" THEN "100" ELSE NaN]

\* yf.download(ticker, period=, start=, end=): rows from start (or the start
\* of the period) to end, end excluded; with no end, to the last bar there is
yf_download(period, start, end, day, answer) ==
    LET from == IF start # NoDate THEN start ELSE PeriodStart(period, day)
        avail == IF answer.live THEN day ELSE day - 1
        upto == IF end # NoDate /\ end - 1 < avail THEN end - 1 ELSE avail
        n == IF upto < from THEN 0 ELSE upto - from + 1
    IN IF answer.kind = "raise" THEN [raised |-> TRUE, df |-> <<>>]
       ELSE IF answer.kind = "empty" THEN [raised |-> FALSE, df |-> <<>>]
       ELSE [raised |-> FALSE,
             df |-> [i \in 1..n |->
                        ProviderRow(from + i - 1, IF i = n THEN answer.last ELSE "ok")]]

\* df.dropna(how='all'): rows whose every value is NaN are dropped
dropna_all(df) == SelectSeq(df, LAMBDA r : ~(r.close = NaN /\ r.volume = NaN))

----------------------------------------------------------------------------
(* BatchUpdater.update_price_history *)

TIMEOUT == 5
MAX_WORKERS == 10

None == [isNone |-> TRUE, df |-> <<>>]
Frame(df) == [isNone |-> FALSE, df |-> df]

\* The sorted list of a set of tickers
RECURSIVE ticker_list_from(_, _)
ticker_list_from(S, i) ==
    IF i > Len(TickerOrder) THEN <<>>
    ELSE (IF TickerOrder[i] \in S THEN <<TickerOrder[i]>> ELSE <<>>)
            \o ticker_list_from(S, i + 1)
ticker_list(S) == ticker_list_from(S, 1)

\* groups: the keys other than 'NEW', in dict insertion order
RECURSIVE group_keys(_, _, _)
group_keys(tickers, ld, seen) ==
    IF tickers = <<>> THEN <<>>
    ELSE LET k == ld[Head(tickers)] IN
         IF k = NoDate \/ k \in seen
         THEN group_keys(Tail(tickers), ld, seen)
         ELSE <<k>> \o group_keys(Tail(tickers), ld, seen \cup {k})

\* start_dt > datetime.now(): start_dt is midnight of the day after last_date
up_to_date(last_date, day) == last_date + 1 > day

\* The tasks of one group of incremental tickers
group_tasks(tickers, ld, last_date, day) ==
    IF up_to_date(last_date, day) THEN <<>>
    ELSE LET batch == SelectSeq(tickers, LAMBDA t : ld[t] = last_date)
         IN [i \in 1..Len(batch) |->
                [ticker |-> batch[i], period |-> "None", start |-> last_date + 1]]

RECURSIVE incremental_tasks(_, _, _, _)
incremental_tasks(tickers, ld, keys, day) ==
    IF keys = <<>> THEN <<>>
    ELSE group_tasks(tickers, ld, Head(keys), day)
            \o incremental_tasks(tickers, ld, Tail(keys), day)

\* Steps 2 and 3: group the tickers and flatten the groups into tasks
build_tasks(tickers, ld, day) ==
    LET new == SelectSeq(tickers, LAMBDA t : ld[t] = NoDate)
    IN [i \in 1..Len(new) |-> [ticker |-> new[i], period |-> "2y", start |-> NoDate]]
        \o incremental_tasks(tickers, ld, group_keys(tickers, ld, {}), day)

\* _fetch_single(task): one download; an exception and an empty answer give None
fetch_single_retrying(task, day, answer) ==
    LET got == yf_download(task.period, task.start, NoDate, day, answer)
    IN [result |-> IF ~got.raised /\ got.df # <<>> THEN Frame(dropna_all(got.df)) ELSE None,
        calls |-> IF ~got.raised /\ got.df # <<>> THEN 1 ELSE 2]

fetch_single(task, day, answer) ==
    LET got == yf_download(task.period, task.start, NoDate, day, answer)
    IN [result |-> IF ~got.raised /\ got.df # <<>> THEN Frame(dropna_all(got.df)) ELSE None,
        calls |-> 1]

\* The futures as_completed(future_to_task) may yield next: those finished
\* before it was called come first, in no particular order, then the others in
\* the order they finished.  Empty while every unhandled future is running.
in_submission_order(finit, forder, done, futs) ==
    LET left == {i \in DOMAIN futs : \A k \in DOMAIN done : done[k] # i}
        first == CHOOSE i \in left : \A j \in left : i <= j
    IN IF left # {} /\ futs[first].state = "done" THEN {first} ELSE {}

as_completed(finit, forder, done, futs) ==
    LET doneSet == {done[k] : k \in DOMAIN done}
        rest == SelectSeq(forder, LAMBDA i : i \notin doneSet)
    IN IF finit \ doneSet # {} THEN finit \ doneSet
       ELSE IF rest # <<>> THEN {Head(rest)}
       ELSE {}

\* future.result(timeout): the result of a finished future; TimeoutError
\* when the future is still running after timeout seconds
future_result(fut, timeout) ==
    IF fut.state = "done" THEN [exc |-> "no", data |-> fut.result]
    ELSE [exc |-> "TimeoutError", data |-> None]

\* The except clauses of the loop body catch TimeoutError and Exception
propagates_all(exc) == exc # "no"

propagates(exc) == FALSE

InitSync ==
    /\ today \in 1..MaxDay
    /\ \E last \in [Tickers -> {NoDate} \cup Days] :
         /\ \A t \in Tickers : last[t] < today
         /\ market_data = {StoredRow(t, d) : t \in {x \in Tickers : last[x] # NoDate},
                                             d \in Days} \ 
                          {r \in {StoredRow(t, d) : t \in Tickers, d \in Days} :
                              r.date > last[r.ticker]}
    /\ sync_log = {}
    /\ pc = "idle"
    /\ latest_dates = [t \in Tickers |-> NoDate]
    /\ tasks = <<>>
    /\ futures = <<>>
    /\ elapsed = 0
    /\ finished_init = {}
    /\ finished_order = <<>>
    /\ handled = <<>>
    /\ skipped_tickers = <<>>
    /\ success_count = 0
    /\ call_raised = "no"
    /\ call_tickers = {}
    /\ cached_at_start = [t \in Tickers |-> NoDate]
    /\ downloads = [t \in Tickers |-> 0]
    /\ st_op = "none"
    /\ st_ticker = TickerOrder[1]
    /\ st_df = <<>>
    /\ st_before = {}
    /\ st_once = {}
    /\ st_raised = FALSE
    /\ ExtQuiet

\* update_price_history(tickers), lines 18-70: look the latest dates up, build
\* the tasks and submit them all; with at most MAX_WORKERS tasks every task
\* starts running at once
StartSync(S, dbOk) ==
    LET tickers == ticker_list(S)
        ld == get_latest_dates(market_data, tickers, dbOk)
        ts == build_tasks(tickers, ld, today)
    IN /\ pc = "idle"
       /\ Len(ts) <= MAX_WORKERS
       /\ pc' = "submitted"
       /\ latest_dates' = ld
       /\ tasks' = ts
       /\ futures' = [i \in DOMAIN ts |->
                        [state |-> "running", yf |-> "none", result |-> None,
                         late |-> FALSE, outcome |-> "pending"]]
       /\ elapsed' = 0
       /\ finished_init' = {}
       /\ finished_order' = <<>>
       /\ handled' = <<>>
       /\ skipped_tickers' = <<>>
       /\ success_count' = 0
       /\ call_raised' = "no"
       /\ call_tickers' = S
       /\ cached_at_start' = [t \in Tickers |-> get_latest_date(market_data, t)]
       /\ downloads' = [t \in Tickers |-> 0]
       /\ UNCHANGED <<extVars, market_data, sync_log, today, storeVars>>

\* More than TIMEOUT seconds have gone by since the tasks were submitted
TimePasses ==
    /\ pc \in {"submitted", "loop"}
    /\ \E i \in DOMAIN futures : futures[i].state = "running"
    /\ elapsed <= TIMEOUT
    /\ elapsed' = TIMEOUT + 1
    /\ UNCHANGED <<extVars, market_data, sync_log, storeVars, today, pc, latest_dates, tasks,
                   futures, finished_init, finished_order, handled, skipped_tickers,
                   success_count, call_raised, call_tickers, cached_at_start, downloads>>

\* A pool worker finishes _fetch_single(task) for task i
WorkerDone(i, answer) ==
    LET got == fetch_single(tasks[i], today, answer) IN
    /\ pc \in {"submitted", "loop"}
    /\ futures[i].state = "running"
    /\ futures' = [futures EXCEPT ![i] =
                     [state |-> "done", yf |-> answer.kind, result |-> got.result,
                      late |-> elapsed > TIMEOUT, outcome |-> "pending"]]
    /\ downloads' = [downloads EXCEPT ![tasks[i].ticker] = @ + got.calls]
    /\ finished_order' = IF pc = "loop" THEN Append(finished_order, i) ELSE finished_order
    /\ UNCHANGED <<extVars, market_data, sync_log, storeVars, today, pc, latest_dates, tasks,
                   elapsed, finished_init, handled, skipped_tickers, success_count,
                   call_raised, call_tickers, cached_at_start>>

\* Line 72: as_completed(future_to_task) is called
EnterLoop ==
    /\ pc = "submitted"
    /\ pc' = "loop"
    /\ finished_init' = {i \in DOMAIN futures : futures[i].state = "done"}
    /\ UNCHANGED <<extVars, market_data, sync_log, storeVars, today, latest_dates, tasks, futures,
                   elapsed, finished_order, handled, skipped_tickers, success_count,
                   call_raised, call_tickers, cached_at_start, downloads>>

\* Lines 72-85: as_completed yields future i and the loop body runs for it
HandleNext(i, dbOk) ==
    LET ticker == tasks[i].ticker
        got == future_result(futures[i], TIMEOUT)
        data == got.data
        hasData == got.exc = "no" /\ ~data.isNone /\ data.df # <<>>
        saved == save_market_data(market_data, ticker, data.df, dbOk)
        exc == IF got.exc # "no" THEN got.exc
               ELSE IF hasData /\ saved.raised THEN "Exception"
               ELSE "no"
        outcome == IF exc = "TimeoutError" THEN "timeout"
                   ELSE IF exc = "Exception" THEN "error"
                   ELSE IF hasData THEN "saved"
                   ELSE "nodata"
    IN /\ pc = "loop"
       /\ i \in as_completed(finished_init, finished_order, handled, futures)
       /\ market_data' = IF hasData THEN saved.table ELSE market_data
       /\ handled' = Append(handled, i)
       /\ futures' = [futures EXCEPT ![i].outcome = outcome]
       /\ IF propagates(exc)
          THEN /\ pc' = "returned"
               /\ call_raised' = "loop"
               /\ UNCHANGED <<skipped_tickers, success_count>>
          ELSE /\ pc' = pc
               /\ call_raised' = call_raised
               /\ skipped_tickers' = IF exc # "no" THEN Append(skipped_tickers, ticker)
                                     ELSE skipped_tickers
               /\ success_count' = IF outcome = "saved" THEN success_count + 1
                                   ELSE success_count
       /\ UNCHANGED <<extVars, sync_log, storeVars, today, latest_dates, tasks, elapsed,
                      finished_init, finished_order, call_tickers, cached_at_start,
                      downloads>>

\* Lines 87-91: every future was handled, the iterator is exhausted and the
\* executor is left; the skipped tickers are logged and the call returns (or
\* raises, when the log cannot be written)
FinishSync(dbOk) ==
    LET logged == save_sync_status(sync_log, skipped_tickers, "TIMEOUT", dbOk) IN
    /\ pc = "loop"
    /\ Len(handled) = Len(tasks)
    /\ sync_log' = logged.table
    /\ call_raised' = IF logged.raised THEN "log" ELSE "no"
    /\ pc' = "returned"
    /\ finished_init' = {}
    /\ finished_order' = <<>>
    /\ elapsed' = 0
    /\ UNCHANGED <<extVars, market_data, storeVars, today, latest_dates, tasks, futures,
                   handled, skipped_tickers, success_count, call_tickers,
                   cached_at_start, downloads>>

\* MarketDataFetcher.fetch_data(ticker, period="5y", force_download)
fetch_data(table, ticker, force, day, answer1, answer2, dbOk) ==
    LET last_date == get_latest_date(table, ticker)
        fresh == ~force /\ last_date # NoDate /\ last_date >= day - 1
        start == IF force \/ last_date = NoDate THEN NoDate ELSE last_date + 1
        inc == yf_download("None", start, day, day, answer1)
        full == yf_download("5y", NoDate, day, day, answer2)
        useInc == start # NoDate /\ ~inc.raised /\ inc.df # <<>>
        df == IF useInc THEN inc.df ELSE full.df
        saved == save_market_data(table, ticker, df, dbOk)
    IN IF fresh THEN [table |-> table, raised |-> FALSE]
       ELSE IF ~useInc /\ full.raised THEN [table |-> table, raised |-> TRUE]
       ELSE saved

\* The call of update_price_history is over: its locals are gone
CallOver ==
    /\ pc' = "idle"
    /\ latest_dates' = [t \in Tickers |-> NoDate]
    /\ tasks' = <<>>
    /\ futures' = <<>>
    /\ elapsed' = 0
    /\ finished_init' = {}
    /\ finished_order' = <<>>
    /\ handled' = <<>>
    /\ skipped_tickers' = <<>>
    /\ success_count' = 0
    /\ call_raised' = "no"
    /\ call_tickers' = {}
    /\ cached_at_start' = [t \in Tickers |-> NoDate]
    /\ downloads' = [t \in Tickers |-> 0]

\* The caller of update_price_history goes on
CallReturned ==
    /\ pc = "returned"
    /\ CallOver
    /\ UNCHANGED <<extVars, market_data, sync_log, storeVars, today>>

FetchData(ticker, force, answer1, answer2, dbOk) ==
    /\ pc = "idle"
    /\ market_data' = fetch_data(market_data, ticker, force, today, answer1, answer2, dbOk).table
    /\ UNCHANGED <<extVars, sync_log, storeVars, syncVars>>

\* Midnight passes
DayTick ==
    /\ pc = "idle"
    /\ today < MaxDay
    /\ today' = today + 1
    /\ UNCHANGED <<extVars, market_data, sync_log, storeVars, pc, latest_dates, tasks, futures,
                   elapsed, finished_init, finished_order, handled, skipped_tickers,
                   success_count, call_raised, call_tickers, cached_at_start, downloads>>

Next ==
    \/ \E S \in SUBSET Tickers, dbOk \in BOOLEAN : StartSync(S, dbOk)
    \/ \E i \in DOMAIN futures, answer \in ProviderAnswers : WorkerDone(i, answer)
    \/ EnterLoop
    \/ \E i \in DOMAIN futures, dbOk \in BOOLEAN : HandleNext(i, dbOk)
    \/ \E dbOk \in BOOLEAN : FinishSync(dbOk)
    \/ CallReturned
    \/ \E t \in Tickers, force \in BOOLEAN, a1 \in ProviderAnswers, a2 \in ProviderAnswers,
          dbOk \in BOOLEAN : FetchData(t, force, a1, a2, dbOk)
    \/ DayTick

\* Price synchronisation over the days: calls of update_price_history and of
\* fetch_data, every task answering within the timeout
Spec == InitSync /\ [][Next]_vars

NextPool ==
    \/ \E S \in SUBSET Tickers, dbOk \in BOOLEAN : StartSync(S, dbOk)
    \/ TimePasses
    \/ \E i \in DOMAIN futures, answer \in ProviderAnswers : WorkerDone(i, answer)
    \/ EnterLoop
    \/ \E i \in DOMAIN futures, dbOk \in BOOLEAN : HandleNext(i, dbOk)
    \/ \E dbOk \in BOOLEAN : FinishSync(dbOk)

\* One call of update_price_history with tasks that may take longer than the
\* timeout
SpecPool == InitSync /\ [][NextPool]_vars

----------------------------------------------------------------------------
(* Claims about update_price_history *)

Latest(t) == get_latest_date(market_data, t)
HandledSet == {handled[k] : k \in DOMAIN handled}
HasFrame(i) == ~futures[i].result.isNone /\ futures[i].result.df # <<>>
WellFormed(i) == \A k \in DOMAIN futures[i].result.df : futures[i].result.df[k].volume # NaN
Persisted(i) ==
    \A k \in DOMAIN futures[i].result.df :
        MarketRecord(tasks[i].ticker, futures[i].result.df[k]) \in market_data
Returned == pc = "returned" /\ call_raised = "no"

\* The fetch of ticker t failed: the download raised or came back empty, or
\* the loop body took its result as an error or a timeout
FetchFailed(t) ==
    \E i \in DOMAIN tasks :
        /\ tasks[i].ticker = t
        /\ \/ futures[i].yf \in {"raise", "empty"}
           \/ futures[i].outcome \in {"error", "timeout"}

\* C2: incremental-sync coverage.  When update_price_history has returned,
\* every ticker of the call that had cached bars through a date D has its
\* latest bar at yesterday or later, or its fetch failed, its latest bar is
\* still D and it has a row in sync_log.
C2_SyncCoverage ==
    Returned =>
        \A t \in call_tickers :
            cached_at_start[t] # NoDate =>
                \/ Latest(t) >= today - 1
                \/ /\ FetchFailed(t)
                   /\ Latest(t) = cached_at_start[t]
                   /\ \E r \in sync_log : r.ticker = t

\* C3: a ticker whose cached latest bar date, as update_price_history read
\* it, is yesterday or later is skipped: no task is created for it.
C3_UpToDateSkipped ==
    \A i \in DOMAIN tasks :
        LET ld == latest_dates[tasks[i].ticker]
        IN ~(ld # NoDate /\ ld >= today - 1)

\* C4: only completed trading days are persisted: no row of market_data has
\* a date equal to or later than the wall-clock day.
C4_OnlyCompletedDays ==
    \A r \in market_data : r.date < today

\* C5: per-task timeout.  When update_price_history has returned, every task
\* that ran for more than the timeout was treated as failed (its data was not
\* saved) and its ticker is in sync_log with status TIMEOUT.
C5_TimeoutRecorded ==
    Returned =>
        \A i \in DOMAIN tasks :
            futures[i].late =>
                /\ futures[i].outcome # "saved"
                /\ [ticker |-> tasks[i].ticker, status |-> "TIMEOUT"] \in sync_log

\* C6: the result of a task that finished after more than the timeout is
\* discarded: its data is never written to market_data by the call.
C6_LateResultDiscarded ==
    \A i \in DOMAIN futures :
        (futures[i].late /\ HasFrame(i)) => futures[i].outcome # "saved"

\* C7: when update_price_history has returned, a ticker it logged with status
\* TIMEOUT is a ticker whose task ran for more than the timeout.
C7_TimeoutOnlyIfTimedOut ==
    Returned =>
        \A k \in DOMAIN skipped_tickers :
            [ticker |-> skipped_tickers[k], status |-> "TIMEOUT"] \in sync_log =>
                \E i \in DOMAIN tasks :
                    tasks[i].ticker = skipped_tickers[k] /\ futures[i].late

C9_CompletionOrder ==
    pc = "loop" =>
        /\ (\E i \in DOMAIN futures : futures[i].state = "done" /\ i \notin HandledSet)
              => \E i \in as_completed(finished_init, finished_order, handled, futures) :
                    futures[i].state = "done"
        /\ \A i \in HandledSet : futures[i].state = "done"
        /\ \A k, l \in DOMAIN handled :
             k < l =>
                /\ ~(handled[l] \in finished_init /\ handled[k] \notin finished_init)
                /\ \A m, n \in DOMAIN finished_order :
                     (finished_order[m] = handled[k] /\ finished_order[n] = handled[l])
                        => m < n

\* The bars of the task submitted second are in the store while the task
\* submitted first has been running for more than the timeout
C9_Witness ==
    /\ pc = "loop"
    /\ Len(tasks) = 2
    /\ futures[1].state = "running"
    /\ elapsed > TIMEOUT
    /\ futures[2].outcome = "saved"
    /\ Persisted(2)

\* C10: no automatic retry.  Within one call each ticker has at most one task
\* and at most one download is made for it.
C10_NoRetry ==
    \A t \in Tickers :
        /\ downloads[t] <= 1
        /\ Cardinality({i \in DOMAIN tasks : tasks[i].ticker = t}) <= 1

\* The call is over: one download raised, the other finished late and empty,
\* and each was made once
C10_Witness ==
    /\ pc = "returned"
    /\ \E i, j \in DOMAIN tasks :
         /\ futures[i].yf = "raise"
         /\ futures[j].yf = "empty" /\ futures[j].late
         /\ downloads[tasks[i].ticker] = 1
         /\ downloads[tasks[j].ticker] = 1

----------------------------------------------------------------------------
(* BatchUpdater.update_fundamentals_and_info *)

FUND_WORKERS == 5

\* What stock.quarterly_* give for a ticker: the request raises, every
\* statement is empty, or there are statements for one report date with a
\* value for "Total Assets" and a value or NaN for "Ebit"
StatementAnswers ==
    [kind : {"raise", "empty"}, ebit : {NaN}, assets : {NaN}]
        \cup [kind : {"rows"}, ebit : {NaN, "v1"}, assets : {"v1"}]

\* What yf.Ticker(ticker).info gives: the request raises, an empty dict, or
\* a dict with the company's sector
InfoAnswers == {"raise", "empty", "s1"}

\* Lines 45-74: one record per cell that is not NaN
fundamental_records(ticker, answer) ==
    (IF answer.ebit = NaN THEN <<>>
     ELSE <<[ticker |-> ticker, report_date |-> 1, metric |-> "Ebit", value |-> answer.ebit]>>)
    \o (IF answer.assets = NaN THEN <<>>
        ELSE <<[ticker |-> ticker, report_date |-> 1, metric |-> "Total Assets",
                value |-> answer.assets]>>)

\* INSERT OR REPLACE on PRIMARY KEY (ticker, report_date, metric)
fund_insert_or_replace(table, rec) ==
    {r \in table : ~(r.ticker = rec.ticker /\ r.report_date = rec.report_date
                       /\ r.metric = rec.metric)} \cup {rec}

RECURSIVE fund_executemany(_, _)
fund_executemany(table, records) ==
    IF records = <<>> THEN table
    ELSE fund_executemany(fund_insert_or_replace(table, Head(records)), Tail(records))

\* fetch_fundamentals(ticker): an exception of the statement requests is caught
\* (lines 37-39) and no statements means return (lines 41-43); the batch insert
\* of lines 76-84 is outside every try, so an sqlite error (dbOk = FALSE) leaves
\* the call as an exception
fetch_fundamentals(table, ticker, answer, dbOk) ==
    IF answer.kind # "rows" THEN [table |-> table, raised |-> FALSE, wrote |-> "none"]
    ELSE IF ~dbOk THEN [table |-> table, raised |-> TRUE, wrote |-> "raised"]
    ELSE [table |-> fund_executemany(table, fundamental_records(ticker, answer)),
          raised |-> FALSE, wrote |-> "rows"]

\* _fetch_single_ticker_info(ticker): fetch_fundamentals, then the info
\* request, whose exception gives None; info is "unfetched" when the worker
\* never got to the request
fetch_single_ticker_info(table, ticker, answer, dbOk, info) ==
    LET f == fetch_fundamentals(table, ticker, answer, dbOk)
    IN [table |-> f.table, raised |-> f.raised, wrote |-> f.wrote,
        info |-> IF f.raised THEN "unfetched" ELSE info]

\* if info_data: / if not info: -- None and an empty dict are falsy
truthy(info) == info \notin {"unfetched", "raise", "empty"}

\* _save_stock_info(ticker, info): INSERT OR REPLACE on PRIMARY KEY ticker
save_stock_info(table, ticker, info, dbOk) ==
    IF ~truthy(info) THEN [table |-> table, raised |-> FALSE]
    ELSE IF ~dbOk THEN [table |-> table, raised |-> TRUE]
    ELSE [table |-> {r \in table : r.ticker # ticker}
                        \cup {[ticker |-> ticker, sector |-> info]},
          raised |-> FALSE]

\* The bar store and the price synchronisation are at rest
BaseQuiet ==
    /\ market_data = {}
    /\ st_op = "none"
    /\ st_ticker = TickerOrder[1]
    /\ st_df = <<>>
    /\ st_before = {}
    /\ st_once = {}
    /\ st_raised = FALSE
    /\ SyncQuiet

InitFund ==
    /\ BaseQuiet
    /\ FundQuiet
    /\ RankQuiet
    /\ rd = NoRead
    /\ TxQuiet
    /\ SchedQuiet
    /\ CalcQuiet

\* Lines 118-124: one _fetch_single_ticker_info is submitted per ticker
StartFund(S) ==
    LET tickers == ticker_list(S) IN
    /\ fi_pc = "idle"
    /\ Len(tickers) <= FUND_WORKERS
    /\ fi_pc' = "submitted"
    /\ fi_tickers' = tickers
    /\ fi_futures' = [i \in DOMAIN tickers |->
                        [state |-> "running", stmt |-> "none", wrote |-> "none",
                         info |-> "unfetched", raised |-> FALSE, outcome |-> "pending"]]
    /\ fi_finished_init' = {}
    /\ fi_finished_order' = <<>>
    /\ fi_handled' = <<>>
    /\ UNCHANGED <<fundOut, fundamentals, stock_info>>

\* A pool worker finishes _fetch_single_ticker_info(tickers[i])
FundWorkerDone(i, answer, dbOk, info) ==
    LET got == fetch_single_ticker_info(fundamentals, fi_tickers[i], answer, dbOk, info) IN
    /\ fi_pc \in {"submitted", "loop"}
    /\ fi_futures[i].state = "running"
    /\ fundamentals' = got.table
    /\ fi_futures' = [fi_futures EXCEPT ![i] =
                        [state |-> "done", stmt |-> answer.kind, wrote |-> got.wrote,
                         info |-> got.info, raised |-> got.raised, outcome |-> "pending"]]
    /\ fi_finished_order' = IF fi_pc = "loop" THEN Append(fi_finished_order, i)
                            ELSE fi_finished_order
    /\ UNCHANGED <<fundOut, stock_info, fi_pc, fi_tickers, fi_finished_init, fi_handled>>

\* Line 127: as_completed(future_to_ticker) is called
FundEnterLoop ==
    /\ fi_pc = "submitted"
    /\ fi_pc' = "loop"
    /\ fi_finished_init' = {i \in DOMAIN fi_futures : fi_futures[i].state = "done"}
    /\ UNCHANGED <<fundOut, fundamentals, stock_info, fi_tickers, fi_futures,
                   fi_finished_order, fi_handled>>

\* Lines 127-137: the loop body for future i.  future.result() re-raises the
\* worker's exception; it and an exception of _save_stock_info are caught
FundHandleNext(i, dbOk) ==
    LET fut == fi_futures[i]
        saved == save_stock_info(stock_info, fi_tickers[i], fut.info, dbOk)
        outcome == IF fut.raised \/ saved.raised THEN "error"
                   ELSE IF truthy(fut.info) THEN "saved"
                   ELSE "skipped"
    IN /\ fi_pc = "loop"
       /\ i \in as_completed(fi_finished_init, fi_finished_order, fi_handled, fi_futures)
       /\ stock_info' = IF fut.raised THEN stock_info ELSE saved.table
       /\ fi_futures' = [fi_futures EXCEPT ![i].outcome = outcome]
       /\ fi_handled' = Append(fi_handled, i)
       /\ UNCHANGED <<fundOut, fundamentals, fi_pc, fi_tickers, fi_finished_init,
                      fi_finished_order>>

\* Line 139: every future was handled and the executor is left
FundFinish ==
    /\ fi_pc = "loop"
    /\ Len(fi_handled) = Len(fi_tickers)
    /\ fi_pc' = "returned"
    /\ fi_finished_init' = {}
    /\ fi_finished_order' = <<>>
    /\ UNCHANGED <<fundOut, fundamentals, stock_info, fi_tickers, fi_futures, fi_handled>>

\* The caller goes on; the locals of the call are gone
FundReturned ==
    /\ fi_pc = "returned"
    /\ fi_pc' = "idle"
    /\ fi_tickers' = <<>>
    /\ fi_futures' = <<>>
    /\ fi_handled' = <<>>
    /\ UNCHANGED <<fundOut, fundamentals, stock_info, fi_finished_init, fi_finished_order>>

NextFund ==
    \/ \E S \in SUBSET Tickers : StartFund(S)
    \/ \E i \in DOMAIN fi_futures, answer \in StatementAnswers, dbOk \in BOOLEAN,
          info \in InfoAnswers : FundWorkerDone(i, answer, dbOk, info)
    \/ FundEnterLoop
    \/ \E i \in DOMAIN fi_futures, dbOk \in BOOLEAN : FundHandleNext(i, dbOk)
    \/ FundFinish
    \/ FundReturned

\* Calls of update_fundamentals_and_info, one after the other
SpecFund == InitFund /\ [][NextFund]_vars

----------------------------------------------------------------------------
(* Claims about update_fundamentals_and_info *)

FundRowsOf(t) == {r \in fundamentals : r.ticker = t}

\* C11: the statement fetch and the info fetch of a ticker are independent.
\* When the call has returned: a ticker whose info request failed has no
\* snapshot written by the call and keeps the fundamentals rows its worker
\* wrote; and a ticker whose statement fetch failed (the request raised, or
\* fetch_fundamentals ended in an error) had its info requested, and has its
\* snapshot in stock_info when the request gave one and that write succeeded.
C11_FetchesIndependent ==
    fi_pc = "returned" =>
        \A i \in DOMAIN fi_futures :
            LET fut == fi_futures[i] IN
            /\ fut.info = "raise" =>
                 /\ fut.outcome = "skipped"
                 /\ fut.wrote = "rows" => FundRowsOf(fi_tickers[i]) # {}
            /\ (fut.stmt = "raise" \/ fut.wrote = "raised") =>
                 /\ fut.info # "unfetched"
                 /\ (truthy(fut.info) /\ fut.outcome # "error") =>
                        [ticker |-> fi_tickers[i], sector |-> fut.info] \in stock_info

----------------------------------------------------------------------------
(* Ranking history: DataStore.get_previous_rankings / save_ranking_history, *)
(* StockSelectionEngine.rank_stocks / rank_magic_formula                    *)

MaxRuns == 3

Strategies == {"smart_beta", "magic_formula"}
\* The universe the rankings are run over
RankTickers == Tickers \cup {"NVDA"}
RankScores == {1}

\* rank_change None (a new entry) or an integer
NoChange == [isNone |-> TRUE, value |-> 0]
Change(n) == [isNone |-> FALSE, value |-> n]

\* A Python dict as a function on its keys
EmptyDict == <<>>

\* get_previous_rankings(strategy): SELECT MAX(date) ... WHERE strategy = ?
\* AND date < today, then the (ticker, rank) pairs of that date as a dict
get_previous_rankings_upto_today(table, strategy, day) ==
    LET ds == {r.date : r \in {x \in table : x.strategy = strategy /\ x.date <= day}}
        last_date == CHOOSE d \in ds : \A e \in ds : e <= d
        rows == {r \in table : r.strategy = strategy /\ r.date = last_date}
    IN IF ds = {} THEN EmptyDict
       ELSE [t \in {r.ticker : r \in rows} |->
                (CHOOSE r \in rows : r.ticker = t).rank]

get_previous_rankings(table, strategy, day) ==
    LET ds == {r.date : r \in {x \in table : x.strategy = strategy /\ x.date < day}}
        last_date == CHOOSE d \in ds : \A e \in ds : e <= d
        rows == {r \in table : r.strategy = strategy /\ r.date = last_date}
    IN IF ds = {} THEN EmptyDict
       ELSE [t \in {r.ticker : r \in rows} |->
                (CHOOSE r \in rows : r.ticker = t).rank]

\* The loop "for rank, row in df.iterrows()": rank is the 0-based index of the
\* sorted frame (row i of the sequence has rank i - 1), current_rank = rank + 1
rank_change_reversed(df, prev_ranks) ==
    [i \in DOMAIN df |->
        LET current_rank == (i - 1) + 1 IN
        IF df[i].ticker \in DOMAIN prev_ranks
        THEN Change(current_rank - prev_ranks[df[i].ticker])
        ELSE NoChange]

rank_change(df, prev_ranks) ==
    [i \in DOMAIN df |->
        LET current_rank == (i - 1) + 1 IN
        IF df[i].ticker \in DOMAIN prev_ranks
        THEN Change(prev_ranks[df[i].ticker] - current_rank)
        ELSE NoChange]

\* INSERT OR REPLACE on PRIMARY KEY (strategy, date, ticker)
rank_insert_or_replace_any_date(table, rec) ==
    {r \in table : ~(r.strategy = rec.strategy /\ r.ticker = rec.ticker)} \cup {rec}

rank_insert_or_replace(table, rec) ==
    {r \in table : ~(r.strategy = rec.strategy /\ r.date = rec.date
                       /\ r.ticker = rec.ticker)} \cup {rec}

RECURSIVE rank_executemany(_, _)
rank_executemany(table, records) ==
    IF records = <<>> THEN table
    ELSE rank_executemany(rank_insert_or_replace(table, Head(records)), Tail(records))

\* save_ranking_history(strategy, df): one record (strategy, today, ticker,
\* rank + 1, score) per row; an sqlite error is caught and printed
save_ranking_history(table, strategy, df, day, dbOk) ==
    LET records == [i \in DOMAIN df |->
                      [strategy |-> strategy, date |-> day, ticker |-> df[i].ticker,
                       rank |-> (i - 1) + 1, score |-> df[i].score]]
    IN IF df = <<>> \/ ~dbOk THEN table
       ELSE rank_executemany(table, records)

\* The frames sort_values / reset_index leave: distinct tickers, ordered by
\* composite_score descending (smart_beta) or magic_score ascending
\* (magic_formula), ties in any order
SortedFrames(strategy) ==
    {df \in UNION {[1..n -> [ticker : RankTickers, score : RankScores]] :
                        n \in 0..Cardinality(RankTickers)} :
        /\ \A i, j \in DOMAIN df : i # j => df[i].ticker # df[j].ticker
        /\ \A i, j \in DOMAIN df :
             i < j => IF strategy = "smart_beta" THEN df[i].score >= df[j].score
                      ELSE df[i].score <= df[j].score}

\* The history a database file holds at the start: none, or the rankings of
\* runs of both strategies on day 0
RankSeeds ==
    {{},
     save_ranking_history(
        save_ranking_history({}, "smart_beta",
            <<[ticker |-> "MSFT", score |-> 1], [ticker |-> "NVDA", score |-> 1],
              [ticker |-> "AAPL", score |-> 1]>>, 0, TRUE),
        "magic_formula", <<[ticker |-> "AAPL", score |-> 1]>>, 0, TRUE)}

InitRank ==
    /\ BaseQuiet
    /\ FundQuiet
    /\ ranking_history \in RankSeeds
    /\ rk_last = NoRun
    /\ rk_runs = 0
    /\ rd = NoRead
    /\ TxQuiet
    /\ SchedQuiet
    /\ CalcQuiet

\* rank_stocks (strategy "smart_beta") or rank_magic_formula ("magic_formula")
\* from the sorted frame on: an empty frame is returned at once; otherwise the
\* previous ranking is read (readOk = FALSE: sqlite raises and the call ends
\* with the exception), rank_change is computed and the history is saved
RankRun(strategy, df, readOk, dbOk) ==
    LET prev == get_previous_rankings(ranking_history, strategy, today)
        changes == rank_change(df, prev)
        out == [i \in DOMAIN df |->
                  [ticker |-> df[i].ticker, score |-> df[i].score,
                   rank_change |-> changes[i]]]
    IN /\ rk_runs < MaxRuns
       /\ rk_runs' = rk_runs + 1
       /\ IF df = <<>>
          THEN /\ rk_last' = [op |-> "empty", strategy |-> strategy, day |-> today,
                              df |-> <<>>, prev |-> EmptyDict, before |-> ranking_history]
               /\ UNCHANGED ranking_history
          ELSE IF ~readOk
          THEN /\ rk_last' = [op |-> "raised", strategy |-> strategy, day |-> today,
                              df |-> <<>>, prev |-> EmptyDict, before |-> ranking_history]
               /\ UNCHANGED ranking_history
          ELSE /\ rk_last' = [op |-> "run", strategy |-> strategy, day |-> today,
                              df |-> out, prev |-> prev, before |-> ranking_history]
               /\ ranking_history' =
                     save_ranking_history(ranking_history, strategy, out, today, dbOk)
       /\ UNCHANGED <<rankOut, syncVars>>

NextRank ==
    \/ \E s \in Strategies, readOk \in BOOLEAN, dbOk \in BOOLEAN :
          \E df \in SortedFrames(s) : RankRun(s, df, readOk, dbOk)
    \/ DayTick

\* Ranking runs of both strategies over the days
SpecRank == InitRank /\ [][NextRank]_vars

----------------------------------------------------------------------------
(* Claims about the ranking history *)

\* The records of the run's strategy dated before the run, and those of them
\* with the greatest such date
EarlierRecords == {r \in rk_last.before :
                      r.strategy = rk_last.strategy /\ r.date < rk_last.day}
PreviousRecords == {r \in EarlierRecords : \A q \in EarlierRecords : q.date <= r.date}

\* C12: get_previous_rankings(strategy) returns exactly the {ticker: rank} map
\* of the records of that strategy at the greatest date strictly before today:
\* its keys are the tickers of those records and each maps to its record's
\* rank; records dated today and records of other strategies are not in it,
\* and it is empty when no earlier date exists.
C12_PreviousRanking ==
    rk_last.op = "run" =>
        /\ DOMAIN rk_last.prev = {r.ticker : r \in PreviousRecords}
        /\ \A r \in PreviousRecords : rk_last.prev[r.ticker] = r.rank
        /\ EarlierRecords = {} => rk_last.prev = EmptyDict

\* The history held rankings of the strategy at two earlier dates and at the
\* day of the run, and a ranking of the other strategy; the map returned is
\* that of the later of the two earlier dates, which ranks a ticker otherwise
\* than the older date and than today's records do
C12_Witness ==
    /\ rk_last.op = "run"
    /\ \E r1, r2 \in EarlierRecords :
         /\ r1.date < r2.date
         /\ r1.ticker = r2.ticker
         /\ r1.rank # r2.rank
         /\ rk_last.prev[r2.ticker] = r2.rank
         /\ \E r3 \in rk_last.before :
              /\ r3.strategy = rk_last.strategy /\ r3.date = rk_last.day
              /\ r3.ticker = r2.ticker /\ r3.rank # r2.rank
    /\ \E r \in rk_last.before : r.strategy # rk_last.strategy
    /\ \E r \in rk_last.before :
         r.strategy = rk_last.strategy /\ r.date = rk_last.day
            /\ r.ticker \notin DOMAIN rk_last.prev

\* C13: rank-change correctness.  For every row of the frame a ranking run
\* returns, rank_change is the ticker's rank in the previous ranking (the
\* strategy's records at the greatest date before the run) minus its 1-based
\* rank in this run, and it is None when the previous ranking has no record of
\* the ticker.
C13_RankChange ==
    rk_last.op = "run" =>
        \A i \in DOMAIN rk_last.df :
            LET row == rk_last.df[i]
                was == {r \in PreviousRecords : r.ticker = row.ticker}
            IN /\ was = {} => row.rank_change.isNone
               /\ \A r \in was : /\ ~row.rank_change.isNone
                                 /\ row.rank_change.value = r.rank - i

\* A ticker ranked third before is first in this run and reports +2, and the
\* ticker that was first is second and reports -1
C13_Witness ==
    /\ rk_last.op = "run"
    /\ \E r \in PreviousRecords :
         /\ r.rank = 3
         /\ rk_last.df[1].ticker = r.ticker
         /\ rk_last.df[1].rank_change = Change(2)
    /\ \E r \in PreviousRecords :
         /\ r.rank = 1
         /\ Len(rk_last.df) >= 2
         /\ rk_last.df[2].ticker = r.ticker
         /\ rk_last.df[2].rank_change = Change(0 - 1)

\* C14: every ranking_history record has a positive rank, and no two tickers
\* share a rank within the same (strategy, date).
C14_RankUnique ==
    \A r1 \in ranking_history :
        /\ r1.rank >= 1
        /\ \A r2 \in ranking_history :
             (r1.strategy = r2.strategy /\ r1.date = r2.date /\ r1.ticker # r2.ticker)
                => r1.rank # r2.rank

\* C15 as stated: ranking history is append-only.  Every record stays in the
\* table as it is, and a step adds records only at a (strategy, date) that had
\* no record.
C15_AppendOnly ==
    [][/\ \A r \in ranking_history : r \in ranking_history'
       /\ \A r \in ranking_history' \ ranking_history :
            ~\E q \in ranking_history : q.strategy = r.strategy /\ q.date = r.date]_vars

\* C15 amended: the rankings of past dates are immutable.  A step leaves every
\* record dated before today in the table as it is and removes no (strategy,
\* date, ticker); the records it adds or replaces are dated today and belong to
\* one strategy.  (A run on a date that already has records of the strategy
\* replaces the records of the tickers it ranks.)
C15_PastImmutable ==
    [][/\ \A r \in ranking_history : r.date < today => r \in ranking_history'
       /\ \A r \in ranking_history :
            \E q \in ranking_history' :
                q.strategy = r.strategy /\ q.date = r.date /\ q.ticker = r.ticker
       /\ \A r \in ranking_history' \ ranking_history : r.date = today
       /\ \A r1, r2 \in ranking_history' \ ranking_history : r1.strategy = r2.strategy]_vars

\* A second run on the same day gave a ticker another rank: its record of that
\* day was replaced, while the strategy's records of an earlier date are as
\* they were
C15_Witness ==
    /\ rk_last.op = "run"
    /\ \E r \in rk_last.before :
         /\ r.strategy = rk_last.strategy /\ r.date = rk_last.day
         /\ r \notin ranking_history
         /\ \E q \in ranking_history :
              q.strategy = r.strategy /\ q.date = r.date /\ q.ticker = r.ticker
                 /\ q.rank # r.rank
    /\ EarlierRecords # {}
    /\ EarlierRecords \subseteq ranking_history

----------------------------------------------------------------------------
(* Claims about the sync log *)

\* C16: the SyncStatus record of a ticker reflects its most recent sync
\* attempt.  When update_price_history has returned, a ticker whose bars the
\* call fetched and saved has no row in sync_log (a row means that the last
\* attempt failed).
C16_LogReflectsLastAttempt ==
    Returned =>
        \A i \in DOMAIN tasks :
            futures[i].outcome = "saved" =>
                ~\E r \in sync_log : r.ticker = tasks[i].ticker

----------------------------------------------------------------------------
(* DataStore: the batched reads *)

\* How the storage behaves during a read: it works, sqlite3.connect raises
\* (the database file cannot be opened), or the query raises (the database is
\* locked, the file is corrupt)
Storage == {"ok", "connect_fails", "query_fails"}

Metrics == <<"Ebit", "Total Assets">>

\* The sub-lists of a list: what a caller may pass
SubLists(list) ==
    {SelectSeq(list, LAMBDA x : x \in S) : S \in SUBSET {list[i] : i \in DOMAIN list}}

Elems(list) == {list[i] : i \in DOMAIN list}

Returns(value) == [result |-> value, raised |-> FALSE]
Raises == [result |-> EmptyDict, raised |-> TRUE]

\* get_latest_dates(tickers): the connection is opened before the try
\* (line 160); the query runs inside it (lines 169-176)
get_latest_dates_dict(table, tickers, storage) ==
    LET found == {t \in Elems(tickers) : \E r \in table : r.ticker = t}
    IN IF tickers = <<>> THEN Returns(EmptyDict)
       ELSE IF storage = "connect_fails" THEN Raises
       ELSE IF storage = "query_fails" THEN Returns(EmptyDict)
       ELSE Returns([t \in found |-> get_latest_date(table, t)])

\* get_latest_stock_info(tickers): connection at line 188, try at lines 193-198
get_latest_stock_info(table, tickers, storage) ==
    LET found == {t \in Elems(tickers) : \E r \in table : r.ticker = t}
    IN IF tickers = <<>> THEN Returns(EmptyDict)
       ELSE IF storage = "connect_fails" THEN Raises
       ELSE IF storage = "query_fails" THEN Returns(EmptyDict)
       ELSE Returns([t \in found |-> (CHOOSE r \in table : r.ticker = t).sector])

\* The value of (ticker, metric) at its greatest report_date, NaN when the
\* pivot has no value for the pair
latest_value(table, t, m) ==
    LET rows == {r \in table : r.ticker = t /\ r.metric = m}
    IN IF rows = {} THEN NaN
       ELSE (CHOOSE r \in rows : \A q \in rows : q.report_date <= r.report_date).value

\* get_latest_fundamentals(tickers, metrics): connection at line 218, try at
\* lines 240-245
get_latest_fundamentals(table, tickers, metrics, storage) ==
    LET found == {t \in Elems(tickers) :
                    \E r \in table : r.ticker = t /\ r.metric \in Elems(metrics)}
    IN IF tickers = <<>> \/ metrics = <<>> THEN Returns(EmptyDict)
       ELSE IF storage = "connect_fails" THEN Raises
       ELSE IF storage = "query_fails" THEN Returns(EmptyDict)
       ELSE Returns([t \in found |->
                        [m \in {x \in Elems(metrics) : \E r \in table : r.metric = x
                                    /\ r.ticker \in Elems(tickers)} |->
                            latest_value(table, t, m)]])

\* Tables a database file can hold when a read is made
FundSeeds ==
    {{},
     {[ticker |-> "AAPL", report_date |-> 1, metric |-> "Ebit", value |-> "v1"],
      [ticker |-> "AAPL", report_date |-> 2, metric |-> "Ebit", value |-> "v2"],
      [ticker |-> "AAPL", report_date |-> 1, metric |-> "Total Assets", value |-> "v1"],
      [ticker |-> "MSFT", report_date |-> 1, metric |-> "Ebit", value |-> "v1"]}}
InfoSeeds ==
    {{}, {[ticker |-> "AAPL", sector |-> "s1"]},
     {[ticker |-> "AAPL", sector |-> "s1"], [ticker |-> "MSFT", sector |-> "s2"]}}

InitRead ==
    /\ market_data \in StoreTables
    /\ st_op = "none"
    /\ st_ticker = TickerOrder[1]
    /\ st_df = <<>>
    /\ st_before = {}
    /\ st_once = {}
    /\ st_raised = FALSE
    /\ SyncQuiet
    /\ fundamentals \in FundSeeds
    /\ stock_info \in InfoSeeds
    /\ fi_pc = "idle"
    /\ fi_tickers = <<>>
    /\ fi_futures = <<>>
    /\ fi_finished_init = {}
    /\ fi_finished_order = <<>>
    /\ fi_handled = <<>>
    /\ RankQuiet
    /\ rd = NoRead
    /\ TxQuiet
    /\ SchedQuiet
    /\ CalcQuiet

readOut == <<baseVars, fundVars, rankVars, conns, schedVars, calcVars>>

ReadLatestDates(tickers, storage) ==
    LET got == get_latest_dates_dict(market_data, tickers, storage) IN
    /\ rd' = [fn |-> "get_latest_dates", tickers |-> tickers, metrics |-> <<>>,
              storage |-> storage, result |-> got.result, raised |-> got.raised]
    /\ UNCHANGED readOut

ReadLatestStockInfo(tickers, storage) ==
    LET got == get_latest_stock_info(stock_info, tickers, storage) IN
    /\ rd' = [fn |-> "get_latest_stock_info", tickers |-> tickers, metrics |-> <<>>,
              storage |-> storage, result |-> got.result, raised |-> got.raised]
    /\ UNCHANGED readOut

ReadLatestFundamentals(tickers, metrics, storage) ==
    LET got == get_latest_fundamentals(fundamentals, tickers, metrics, storage) IN
    /\ rd' = [fn |-> "get_latest_fundamentals", tickers |-> tickers, metrics |-> metrics,
              storage |-> storage, result |-> got.result, raised |-> got.raised]
    /\ UNCHANGED readOut

NextRead ==
    \/ \E tickers \in SubLists(TickerOrder), storage \in Storage :
          ReadLatestDates(tickers, storage)
    \/ \E tickers \in SubLists(TickerOrder), storage \in Storage :
          ReadLatestStockInfo(tickers, storage)
    \/ \E tickers \in SubLists(TickerOrder), metrics \in SubLists(Metrics),
          storage \in Storage : ReadLatestFundamentals(tickers, metrics, storage)

\* Batched reads of tables of any content, with a storage that may fail
SpecRead == InitRead /\ [][NextRead]_vars

\* C17: every batched read returns an empty map when the underlying storage
\* operation fails, and never propagates the error to the caller; it also
\* returns an empty map for an empty ticker list.
C17_ReadsNeverRaise ==
    rd.fn # "none" =>
        /\ ~rd.raised
        /\ rd.storage # "ok" => DOMAIN rd.result = {}
        /\ rd.tickers = <<>> => DOMAIN rd.result = {}

----------------------------------------------------------------------------
(* The upsert calls as sqlite transactions: each call opens a connection of  *)
(* its own (DataStore._get_conn), executes its rows and commits once         *)

TxKinds == {"market_data", "fundamentals", "stock_info", "ranking_history"}

\* The four tables of the database file
tables ==
    [market_data |-> market_data, fundamentals |-> fundamentals,
     stock_info |-> stock_info, ranking_history |-> ranking_history]

\* INSERT OR REPLACE of one row into the table of a call
upsert(kind, table, rec) ==
    IF kind = "market_data" THEN InsertOrReplace(table, rec)
    ELSE IF kind = "fundamentals" THEN fund_insert_or_replace(table, rec)
    ELSE IF kind = "stock_info" THEN {r \in table : r.ticker # rec.ticker} \cup {rec}
    ELSE rank_insert_or_replace(table, rec)

RECURSIVE upsert_many(_, _, _)
upsert_many(kind, table, records) ==
    IF records = <<>> THEN table
    ELSE upsert_many(kind, upsert(kind, table, Head(records)), Tail(records))

\* The rows a call writes: save_market_data(ticker, two bars),
\* fetch_fundamentals(ticker) with two metrics, _save_stock_info(ticker, info)
\* and save_ranking_history(strategy, frame of two tickers led by ticker)
call_records(kind, ticker) ==
    IF kind = "market_data"
    THEN [i \in 1..2 |-> MarketRecord(ticker,
                            [ts |-> [day |-> i, hour |-> 0], close |-> "c2", volume |-> "100"])]
    ELSE IF kind = "fundamentals"
    THEN fundamental_records(ticker, [kind |-> "rows", ebit |-> "v1", assets |-> "v1"])
    ELSE IF kind = "stock_info"
    THEN <<[ticker |-> ticker, sector |-> "s1"]>>
    ELSE LET other == CHOOSE t \in Tickers : t # ticker
         IN [i \in 1..2 |->
                [strategy |-> "smart_beta", date |-> today,
                 ticker |-> IF i = 1 THEN ticker ELSE other, rank |-> (i - 1) + 1,
                 score |-> 1]]

\* The calls a thread makes: each pool worker runs fetch_fundamentals for the
\* ticker of its task; the calling thread runs _save_stock_info,
\* save_market_data and save_ranking_history
thread_calls(c) ==
    IF c = "pool-1" THEN {[kind |-> "fundamentals", ticker |-> TickerOrder[1]]}
    ELSE IF c = "pool-2" THEN {[kind |-> "fundamentals", ticker |-> TickerOrder[2]]}
    ELSE [kind : TxKinds \ {"fundamentals"}, ticker : {TickerOrder[1]}]

\* What the other connections see of a row that was executed and not yet
\* committed: sqlite3.connect is called with the default isolation_level, so
\* the INSERT opens a transaction and the row stays private until commit()
execute_autocommit(kind, table, rec) == upsert(kind, table, rec)

execute_in_transaction(kind, table, rec) == table

\* sqlite lets one connection at a time hold the write lock: it is taken by
\* the first row executed and released by commit or rollback
write_lock_free(c) ==
    \A o \in TxThreads \ {c} : ~(conns[o].state = "open" /\ conns[o].done > 0)

SetTables(T) ==
    /\ market_data' = T.market_data
    /\ fundamentals' = T.fundamentals
    /\ stock_info' = T.stock_info
    /\ ranking_history' = T.ranking_history

txOut == <<sync_log, storeVars, syncVars, fi_pc, fi_tickers, fi_futures,
           fi_finished_init, fi_finished_order, fi_handled, rk_last, rk_runs, rd,
           schedVars, calcVars>>

\* The bars of one ticker and day are in the file before the calls
InitTx ==
    /\ market_data = {StoredRow(TickerOrder[1], 1)}
    /\ st_op = "none"
    /\ st_ticker = TickerOrder[1]
    /\ st_df = <<>>
    /\ st_before = {}
    /\ st_once = {}
    /\ st_raised = FALSE
    /\ SyncQuiet
    /\ ExtQuiet

\* Thread c enters an upsert call: the records are built and conn =
\* self._get_conn() opens a connection
TxOpen(c, kind, ticker) ==
    /\ conns[c].state # "open"
    /\ conns' = [conns EXCEPT ![c] =
                    [state |-> "open", kind |-> kind,
                     records |-> call_records(kind, ticker), done |-> 0,
                     raised |-> FALSE]]
    /\ UNCHANGED <<market_data, fundamentals, stock_info, ranking_history, txOut>>

\* cursor.executemany / cursor.execute: the next row of the call is executed
TxExecute(c) ==
    LET call == conns[c] IN
    /\ call.state = "open"
    /\ call.done < Len(call.records)
    /\ write_lock_free(c)
    /\ conns' = [conns EXCEPT ![c].done = @ + 1]
    /\ SetTables([tables EXCEPT ![call.kind] =
                    execute_in_transaction(call.kind, @, call.records[call.done + 1])])
    /\ UNCHANGED txOut

\* conn.commit(): the rows of the call become the content of the table
TxCommit(c) ==
    LET call == conns[c] IN
    /\ call.state = "open"
    /\ call.done = Len(call.records)
    /\ conns' = [conns EXCEPT ![c].state = "committed"]
    /\ SetTables([tables EXCEPT ![call.kind] = upsert_many(call.kind, @, call.records)])
    /\ UNCHANGED txOut

\* sqlite raises in the call (the database stays locked by another connection
\* past the busy timeout, a row cannot be written, the commit fails): the
\* connection is dropped without a commit and its transaction is rolled back.
\* save_ranking_history catches the exception; the other calls raise
TxFail(c) ==
    LET call == conns[c] IN
    /\ call.state = "open"
    /\ conns' = [conns EXCEPT ![c].state = "failed",
                              ![c].raised = (call.kind # "ranking_history")]
    /\ UNCHANGED <<market_data, fundamentals, stock_info, ranking_history, txOut>>

NextTx ==
    \/ \E c \in TxThreads : \E call \in thread_calls(c) : TxOpen(c, call.kind, call.ticker)
    \/ \E c \in TxThreads : TxExecute(c)
    \/ \E c \in TxThreads : TxCommit(c)
    \/ \E c \in TxThreads : TxFail(c)

\* Upsert calls made by concurrent threads
SpecTx == InitTx /\ [][NextTx]_vars

----------------------------------------------------------------------------
(* Claims about the upserts *)

RecordSet(call) == {call.records[i] : i \in DOMAIN call.records}

\* C18: each upsert call is atomic at the row-batch level.  Whatever the
\* other threads do, a step changes the content of a table only by putting
\* the whole batch of one call into it, at that call's commit, and then every
\* row of the batch is in the table; a call that fails changes no table.  So
\* no state a reader can see holds a part of a batch.
C18_BatchAtomic ==
    [][\A kind \in TxKinds :
         \/ tables'[kind] = tables[kind]
         \/ \E c \in TxThreads :
              /\ conns[c].state = "open" /\ conns[c].kind = kind
              /\ conns'[c].state = "committed"
              /\ tables'[kind] = upsert_many(kind, tables[kind], conns[c].records)
              /\ RecordSet(conns[c]) \subseteq tables'[kind]]_vars

\* A call of two rows was committed by one thread: both rows are in its table
\* although another thread had begun the same kind of call and failed after
\* its first row, and a third thread has a call open
C18_Witness ==
    \E c1, c2, c3 \in TxThreads :
        /\ conns[c1].state = "committed"
        /\ Len(conns[c1].records) = 2
        /\ RecordSet(conns[c1]) \subseteq tables[conns[c1].kind]
        /\ conns[c2].state = "failed"
        /\ conns[c2].done = 1
        /\ Len(conns[c2].records) = 2
        /\ RecordSet(conns[c2]) \cap tables[conns[c2].kind] = {}
        /\ conns[c3].state = "open"

----------------------------------------------------------------------------
(* SyncScheduler: start, stop, the loop thread, and the "Save Auto-Sync      *)
(* Configuration" button of the data center view.  The clock counts seconds. *)

MaxClock == 130
MaxThreads == 2
MaxCalls == 3
TickStep == 5

SLEEP_CHECK == 10
SLEEP_AFTER_TRIGGER == 61
JOIN_TIMEOUT == 1
MINUTE == 60

\* How long _execute_sync takes, in seconds
SyncSeconds == {2, 70}

\* datetime.now().strftime("%H:%M"): the clock minute
now_str(t) == t \div MINUTE

\* The scheduler object and its threads
sched ==
    [running |-> running, thread |-> thread, status |-> sched_status,
     threads |-> threads, clock |-> clock]

Min(S) == CHOOSE x \in S : \A y \in S : x <= y

\* if self.running: return
never_running(r) == FALSE

already_running(r) == r

\* start(): the new Thread begins with its first pass through the loop
start(s) ==
    IF already_running(s.running) THEN s
    ELSE [s EXCEPT !.running = TRUE,
                   !.thread = Len(s.threads) + 1,
                   !.threads = Append(s.threads, [pc |-> "sleeping", wake |-> s.clock]),
                   !.status = "Running"]

\* stop() without line 70: the flag is left as it is
stop_flag_left(s) == [s EXCEPT !.status = "Stopped"]

\* stop(): running = False, then thread.join(timeout=1.0).  A loop thread
\* whose sleep ends within the join sees running = False and ends; one that
\* sleeps longer (or is in a sync) is left alive when the join times out
stop(s) ==
    LET joined == s.thread # 0 /\ s.threads[s.thread].pc = "sleeping"
                     /\ s.threads[s.thread].wake <= s.clock + JOIN_TIMEOUT
        after == IF s.thread = 0 THEN s.clock
                 ELSE IF s.threads[s.thread].pc = "exited" THEN s.clock
                 ELSE IF joined THEN (IF s.threads[s.thread].wake > s.clock
                                      THEN s.threads[s.thread].wake ELSE s.clock)
                 ELSE s.clock + JOIN_TIMEOUT
    IN [s EXCEPT !.running = FALSE,
                 !.status = "Stopped",
                 !.clock = after,
                 !.threads = [i \in DOMAIN s.threads |->
                                IF s.threads[i].pc = "sleeping" /\ s.threads[i].wake <= after
                                THEN [pc |-> "exited", wake |-> s.threads[i].wake]
                                ELSE s.threads[i]]]

SetSched(s) ==
    /\ running' = s.running
    /\ thread' = s.thread
    /\ sched_status' = s.status
    /\ threads' = s.threads
    /\ clock' = s.clock

schedOut == <<baseVars, fundVars, rankVars, rd, conns, calcVars>>

\* The process has just constructed the scheduler; the configuration file
\* enables auto-sync at clock minute 1 or is the default one
InitSched ==
    /\ BaseQuiet
    /\ FundQuiet
    /\ RankQuiet
    /\ rd = NoRead
    /\ TxQuiet
    /\ config \in [enabled : BOOLEAN, time : {1}]
    /\ running = FALSE
    /\ thread = 0
    /\ sched_status = "Stopped"
    /\ threads = <<>>
    /\ clock = 0
    /\ sched_calls = 0
    /\ sched_op = "none"
    /\ triggers = {}
    /\ CalcQuiet

\* A call of start()
Start ==
    LET s == start(sched) IN
    /\ sched_calls < MaxCalls
    /\ Len(s.threads) <= MaxThreads
    /\ s.clock <= MaxClock
    /\ SetSched(s)
    /\ sched_calls' = sched_calls + 1
    /\ sched_op' = IF running THEN "start_noop" ELSE "start"
    /\ UNCHANGED <<config, triggers, schedOut>>

\* A call of stop()
Stop ==
    LET s == stop(sched) IN
    /\ sched_calls < MaxCalls
    /\ s.clock <= MaxClock
    /\ SetSched(s)
    /\ sched_calls' = sched_calls + 1
    /\ sched_op' = "stop"
    /\ UNCHANGED <<config, triggers, schedOut>>

\* The button "Save Auto-Sync Configuration" (data_center_view.py lines
\* 225-238): the configuration is written, then a running scheduler is
\* stopped and started again, and a stopped one is started when enabled
SaveConfig(is_enabled) ==
    LET s == IF running THEN start(stop(sched))
             ELSE IF is_enabled THEN start(sched)
             ELSE sched
    IN /\ sched_calls < MaxCalls
       /\ Len(s.threads) <= MaxThreads
       /\ s.clock <= MaxClock
       /\ config' = [config EXCEPT !.enabled = is_enabled]
       /\ SetSched(s)
       /\ sched_calls' = sched_calls + 1
       /\ sched_op' = IF running THEN "restart" ELSE IF is_enabled THEN "start" ELSE "save"
       /\ UNCHANGED <<triggers, schedOut>>

\* One pass of thread i through the loop of _run_loop, from the test of
\* self.running to the end of the sleep that follows; a triggered sync takes
\* seconds seconds
LoopPass(i, seconds) ==
    LET trigger == config.enabled /\ now_str(clock) = config.time IN
    /\ threads[i].pc = "sleeping"
    /\ threads[i].wake <= clock
    /\ IF ~running
       THEN /\ threads' = [threads EXCEPT ![i].pc = "exited"]
            /\ UNCHANGED <<sched_status, triggers>>
       ELSE IF ~config.enabled
       THEN /\ sched_status' = "Paused (Disabled in Config)"
            /\ threads' = [threads EXCEPT ![i].wake = clock + SLEEP_CHECK]
            /\ UNCHANGED triggers
       ELSE IF trigger
       THEN /\ sched_status' = "SYNCING..."
            /\ triggers' = triggers \cup {[thread |-> i, at |-> clock]}
            /\ threads' = [threads EXCEPT ![i].wake = clock + seconds + SLEEP_AFTER_TRIGGER]
       ELSE /\ sched_status' = "Idle. Waiting"
            /\ threads' = [threads EXCEPT ![i].wake = clock + SLEEP_CHECK]
            /\ UNCHANGED triggers
    /\ UNCHANGED <<config, running, thread, clock, sched_calls, sched_op, schedOut>>

\* Time passes, up to the moment the next sleep ends
Tick ==
    LET due == {threads[i].wake : i \in {j \in DOMAIN threads : threads[j].pc = "sleeping"}}
        next == Min(due \cup {clock + TickStep, MaxClock})
    IN /\ clock < MaxClock
       /\ \A w \in due : w > clock
       /\ clock' = next
       /\ UNCHANGED <<config, running, thread, sched_status, threads, sched_calls,
                      sched_op, triggers, schedOut>>

NextSched ==
    \/ Start
    \/ Stop
    \/ \E is_enabled \in BOOLEAN : SaveConfig(is_enabled)
    \/ \E i \in DOMAIN threads, seconds \in SyncSeconds : LoopPass(i, seconds)
    \/ Tick

\* The scheduler over a little more than two clock minutes
SpecSched == InitSched /\ [][NextSched]_vars

----------------------------------------------------------------------------
(* Claims about the scheduler *)

\* C19: start() is safe to call while the scheduler is already running: the
\* call is a no-op.  A step that is a call of start() made while running is
\* true creates no thread and leaves running, thread and status as they were.
C19_StartWhileRunning ==
    [][(running /\ sched_op' \in {"start", "start_noop"} /\ sched_calls' # sched_calls) =>
          /\ running' = running
          /\ thread' = thread
          /\ sched_status' = sched_status
          /\ threads' = threads]_vars

\* start() was called a second time while the loop thread it had started was
\* waiting for the trigger time: there is still one thread
C19_Witness ==
    /\ sched_op = "start_noop"
    /\ sched_calls = 2
    /\ running
    /\ thread = 1
    /\ Len(threads) = 1
    /\ sched_status = "Idle. Waiting"

\* C20: the scheduler never double-triggers: no two syncs are triggered in
\* the same clock minute.
C20_NoDoubleTrigger ==
    \A a, b \in triggers : now_str(a.at) = now_str(b.at) => a = b

----------------------------------------------------------------------------
(* BacktestEngine (src/src/engines/backtest_engine.py) and the strategies   *)

\* ---------------------------------------------------------------------------
\* Floating-point numbers of the backtest engine (pandas / numpy float64).
\* A number is an integer count of quanta of 2^-ScaleBits; every operation
\* rounds its exact result to MantissaBits significant bits, ties to even,
\* as IEEE 754 does with 53 bits.  A missing value (NaN) of a Series is an
\* index absent from the DOMAIN of the function that models the Series.
\* ---------------------------------------------------------------------------
MantissaBits == 3
ScaleBits == 8

RECURSIVE Pow2(_)
Pow2(k) == IF k = 0 THEN 1 ELSE 2 * Pow2(k - 1)

RECURSIVE BitLen(_)
BitLen(n) == IF n = 0 THEN 0 ELSE 1 + BitLen(n \div 2)

One == Pow2(ScaleBits)

RoundHalfEven(a, d) ==
    LET q == a \div d
        r == a % d
    IN  IF 2 * r > d \/ (2 * r = d /\ q % 2 = 1) THEN q + 1 ELSE q

fl_round(a, d) ==
    LET q == a \div d
        e == IF q < Pow2(MantissaBits) THEN 0 ELSE BitLen(q) - MantissaBits
    IN  RoundHalfEven(a, d * Pow2(e)) * Pow2(e)

fl(num, den) == IF num < 0 THEN 0 - fl_round(0 - num, den) ELSE fl_round(num, den)

fadd(a, b) == fl(a + b, 1)
fsub(a, b) == fl(a - b, 1)
fmul(a, b) == fl(a * b, One)
fdiv(a, b) == IF b > 0 THEN fl(a * One, b) ELSE fl((0 - a) * One, 0 - b)

RECURSIVE isqrt_bits(_, _, _)
isqrt_bits(t, y, b) ==
    IF b = 0 THEN y
    ELSE LET z == y + (b \div 2)
         IN  IF b \div 2 > 0 /\ z * z <= t THEN isqrt_bits(t, z, b \div 2)
             ELSE isqrt_bits(t, y, b \div 2)

isqrt(t) == isqrt_bits(t, 0, Pow2((BitLen(t) + 3) \div 2))

fsqrt(a) ==
    LET t == a * One
        y == isqrt(t)
        e == IF y < Pow2(MantissaBits) THEN 0 ELSE BitLen(y) - MantissaBits
        lo == (y \div Pow2(e)) * Pow2(e)
        hi == lo + Pow2(e)
        \* 2 * mid = lo + hi ; compare 4t with (lo + hi)^2
        c == 4 * t - (lo + hi) * (lo + hi)
    IN  IF c > 0 \/ (c = 0 /\ (lo \div Pow2(e)) % 2 = 1) THEN hi ELSE lo

from_int(n) == fl(n * One, 1)

\* np.sqrt(252), rounded as every number is
SQRT252 == fsqrt(from_int(252))

\* A Series or a column is a function from bar numbers (1 the oldest) to
\* numbers; EmptySeries has no valid value at all
EmptySeries == <<>>
Index(df) == 1..Len(df)
MaxOf(S) == CHOOSE x \in S : \A y \in S : y <= x
MinOf(S) == CHOOSE x \in S : \A y \in S : x <= y

\* The valid values of a Series in index order (what .sum(), .prod(),
\* .cumprod() run over)
RECURSIVE Values(_)
Values(s) ==
    IF DOMAIN s = {} THEN <<>>
    ELSE LET last == MaxOf(DOMAIN s)
         IN  Append(Values([t \in DOMAIN s \ {last} |-> s[t]]), s[last])

\* df['close'] as floats
close_column(df) == [t \in Index(df) |-> from_int(df[t])]

\* Series.shift(-1): the value of the NEXT bar
shift_back(s, idx) == [t \in {u \in idx : u + 1 \in DOMAIN s} |-> s[t + 1]]

\* Series.shift(1) on a frame of index idx
shift(s, idx) == [t \in {u \in idx : u - 1 \in DOMAIN s} |-> s[t - 1]]

\* Series.pct_change(): s / s.shift(1) - 1
pct_change(s) ==
    [t \in {u \in DOMAIN s : u - 1 \in DOMAIN s} |-> fsub(fdiv(s[t], s[t - 1]), One)]

\* Sum of the w values of x that end at bar t (rolling(window=w).sum())
RECURSIVE WinSum(_, _, _)
WinSum(x, t, w) == IF w = 0 THEN 0 ELSE x[t] + WinSum(x, t - 1, w - 1)

\* strategy_sma_trend: np.where(short_ma > long_ma, 1.0, 0.0).  A rolling
\* mean is NaN before its window is full and a comparison with NaN is False.
\* The two means of integer prices are compared exactly.
strategy_sma_trend(df, short_window, long_window) ==
    [t \in Index(df) |->
        IF /\ t >= short_window
           /\ t >= long_window
           /\ WinSum(df, t, short_window) * long_window
                  > WinSum(df, t, long_window) * short_window
        THEN One ELSE 0]

\* delta.where(delta > 0, 0) and -delta.where(delta < 0, 0): the first bar,
\* whose delta is NaN, gets 0 in both
gain_column(df) ==
    [t \in Index(df) |-> IF t >= 2 /\ df[t] > df[t - 1] THEN df[t] - df[t - 1] ELSE 0]
loss_column(df) ==
    [t \in Index(df) |-> IF t >= 2 /\ df[t] < df[t - 1] THEN df[t - 1] - df[t] ELSE 0]

\* rsi = 100 - 100 / (1 + gain / loss) over the rolling means of rsi_period
\* bars, that is 100 * G / (G + L) over the rolling sums; NaN before the
\* window is full and when G = L = 0 (0 / 0); 100 when L = 0 < G (rs = inf)
rsi_defined(df, t, rsi_period) ==
    /\ t >= rsi_period
    /\ WinSum(gain_column(df), t, rsi_period) + WinSum(loss_column(df), t, rsi_period) > 0
rsi_below(df, t, rsi_period, threshold) ==
    /\ rsi_defined(df, t, rsi_period)
    /\ 100 * WinSum(gain_column(df), t, rsi_period)
          < threshold * (WinSum(gain_column(df), t, rsi_period)
                           + WinSum(loss_column(df), t, rsi_period))
rsi_above(df, t, rsi_period, threshold) ==
    /\ rsi_defined(df, t, rsi_period)
    /\ 100 * WinSum(gain_column(df), t, rsi_period)
          > threshold * (WinSum(gain_column(df), t, rsi_period)
                           + WinSum(loss_column(df), t, rsi_period))

\* signal[mask] = value
masked_assign(s, mask, value) ==
    [t \in DOMAIN s \cup mask |-> IF t \in mask THEN value ELSE s[t]]

\* Series.ffill() and Series.fillna(value) on a frame of index idx
ffill(s, idx) ==
    [t \in {u \in idx : \E v \in DOMAIN s : v <= u} |->
        s[MaxOf({v \in DOMAIN s : v <= t})]]
fillna(s, idx, value) == [t \in idx |-> IF t \in DOMAIN s THEN s[t] ELSE value]

\* Lines 121-129 (and strategy_registry.py lines 102-108): the two masked
\* assignments in their order, then ffill, then fillna(0.0)
rsi_signal_entry_last(df, rsi_period, buy_threshold, sell_threshold) ==
    LET exits == {t \in Index(df) : rsi_above(df, t, rsi_period, sell_threshold)}
        entries == {t \in Index(df) : rsi_below(df, t, rsi_period, buy_threshold)}
    IN  fillna(ffill(masked_assign(masked_assign(EmptySeries, exits, 0), entries, One),
                     Index(df)), Index(df), 0)

rsi_signal(df, rsi_period, buy_threshold, sell_threshold) ==
    LET entries == {t \in Index(df) : rsi_below(df, t, rsi_period, buy_threshold)}
        exits == {t \in Index(df) : rsi_above(df, t, rsi_period, sell_threshold)}
    IN  fillna(ffill(masked_assign(masked_assign(EmptySeries, entries, One), exits, 0),
                     Index(df)), Index(df), 0)

strategy_rsi_reversion(df, rsi_period, buy_threshold, sell_threshold) ==
    rsi_signal(df, rsi_period, buy_threshold, sell_threshold)

\* RsiMeanReversionStrategy.run, the column of one ticker: lines 92-94 give
\* 0.0 on every date to a frame shorter than rsi_period
RsiMeanReversionStrategy_run(df, rsi_period, buy_threshold, sell_threshold) ==
    IF Len(df) < rsi_period THEN [t \in Index(df) |-> 0]
    ELSE rsi_signal(df, rsi_period, buy_threshold, sell_threshold)

\* SmaCrossStrategy.run, the column of one ticker: lines 58-60 give 0.0 on
\* every date to a frame shorter than long_window
SmaCrossStrategy_run(df, short_window, long_window) ==
    IF Len(df) < long_window THEN [t \in Index(df) |-> 0]
    ELSE strategy_sma_trend(df, short_window, long_window)

\* Prices of the frames and the common denominator of their daily returns:
\* df['close'].pct_change() of bar t is ret_column(df)[t] / RetDen exactly
PriceLevels == {1, 2}
RECURSIVE SetProduct(_)
SetProduct(S) == IF S = {} THEN 1 ELSE LET x == CHOOSE y \in S : TRUE
                                       IN  x * SetProduct(S \ {x})
RetDen == SetProduct(PriceLevels)
ret_column(df) ==
    [t \in Index(df) \ {1} |-> ((df[t] - df[t - 1]) * RetDen) \div df[t - 1]]

\* The k-th smallest (k = 0 the smallest) of the values x takes on window W
KthSmallest(x, W, k) ==
    CHOOSE v \in {x[i] : i \in W} :
        /\ Cardinality({i \in W : x[i] < v}) <= k
        /\ k < Cardinality({i \in W : x[i] <= v})

\* rolling(window).quantile(percentile) at bar t, times percentile.den:
\* linear interpolation between the order statistics around (n - 1) * percentile
quantile_scaled(x, t, window, percentile) ==
    LET W == (t - window + 1)..t
        pos == (window - 1) * percentile.num
        lo == pos \div percentile.den
        rem == pos % percentile.den
        vlo == KthSmallest(x, W, lo)
        vhi == IF rem = 0 THEN vlo ELSE KthSmallest(x, W, lo + 1)
    IN  vlo * percentile.den + rem * (vhi - vlo)

\* LiquidityCrisisStrategy.run, the column of one ticker (lines 179-194).
\* rolling_var of bar t is the quantile of the window that ends at t - 1
\* (shift(1)); it is NaN until that window holds `lookback` returns, and
\* ret < NaN is False.
shifted_var_defined(df, t, lookback) == t - lookback >= 2
liquidity_trigger(df, t, lookback, percentile) ==
    /\ shifted_var_defined(df, t, lookback)
    /\ ret_column(df)[t] * percentile.den
          < quantile_scaled(ret_column(df), t - 1, lookback, percentile)
LiquidityCrisisStrategy_run(df, lookback, percentile, hold_days) ==
    IF Len(df) < lookback THEN [t \in Index(df) |-> 0]
    ELSE [t \in Index(df) |->
            IF \E u \in Index(df) : /\ u <= t
                                   /\ u > t - hold_days
                                   /\ liquidity_trigger(df, u, lookback, percentile)
            THEN One ELSE 0]

\* --- calculate_metrics (lines 11-35), over the values of daily_returns ---

RECURSIVE fsum(_)
fsum(r) == IF r = <<>> THEN 0 ELSE fadd(fsum(SubSeq(r, 1, Len(r) - 1)), r[Len(r)])

\* (1 + daily_returns).cumprod()
RECURSIVE cumprod1p(_)
cumprod1p(r) ==
    IF r = <<>> THEN <<>>
    ELSE IF Len(r) = 1 THEN <<fadd(One, r[1])>>
    ELSE LET c == cumprod1p(SubSeq(r, 1, Len(r) - 1))
         IN  Append(c, fmul(c[Len(c)], fadd(One, r[Len(r)])))

cummax(c) == [k \in DOMAIN c |-> MaxOf({c[j] : j \in 1..k})]

fmean(r) == fdiv(fsum(r), from_int(Len(r)))

\* Series.std(): ddof = 1, NaN for a single value
std_defined(r) == Len(r) >= 2
fstd(r) ==
    LET avg == fmean(r)
        sqr == [k \in DOMAIN r |-> fmul(fsub(avg, r[k]), fsub(avg, r[k]))]
    IN  fsqrt(fdiv(fsum(sqr), from_int(Len(r) - 1)))

\* Line 22: if daily_returns.std() > 0 (False for NaN)
std_positive(r) == std_defined(r) /\ fstd(r) > 0

\* (1 + daily_returns).prod() multiplies in the order cumprod does, so it is
\* the last value of cumulative
EmptyMetrics == <<>>
calculate_metrics(r) ==
    IF r = <<>> THEN EmptyMetrics
    ELSE LET cumulative == cumprod1p(r)
             peak == cummax(cumulative)
             drawdown == [k \in DOMAIN r |->
                             fdiv(fsub(cumulative[k], peak[k]), peak[k])]
         IN  [total_return |-> fsub(cumulative[Len(r)], One),
              sharpe_ratio |-> IF std_positive(r)
                               THEN fmul(fdiv(fmean(r), fstd(r)), SQRT252)
                               ELSE 0,
              max_drawdown |-> MinOf({drawdown[k] : k \in DOMAIN r})]

\* --- BacktestEngine.run (lines 38-67) ---

\* The strategy functions that can be passed as strategy_func, and the
\* keyword defaults of each: the two functions of backtest_engine.py, and the
\* strategies of strategy_registry.py applied to a one-ticker market_data
StrategyNames == {"strategy_sma_trend", "strategy_rsi_reversion",
                  "SmaCrossStrategy", "RsiMeanReversionStrategy",
                  "LiquidityCrisisStrategy"}
default_params(name) ==
    CASE name = "strategy_sma_trend" -> [short_window |-> 50, long_window |-> 200]
      [] name = "SmaCrossStrategy" -> [short_window |-> 20, long_window |-> 200]
      [] name \in {"strategy_rsi_reversion", "RsiMeanReversionStrategy"} ->
            [rsi_period |-> 14, buy_threshold |-> 30, sell_threshold |-> 70]
      [] name = "LiquidityCrisisStrategy" ->
            [lookback |-> 252, percentile |-> [num |-> 1, den |-> 20], hold_days |-> 5]

\* **params over the defaults of the signature
with_defaults(name, params) ==
    [k \in DOMAIN default_params(name) |->
        IF k \in DOMAIN params THEN params[k] ELSE default_params(name)[k]]

strategy_func(name, df, params) ==
    LET p == with_defaults(name, params) IN
    CASE name = "strategy_sma_trend" ->
            strategy_sma_trend(df, p.short_window, p.long_window)
      [] name = "SmaCrossStrategy" ->
            SmaCrossStrategy_run(df, p.short_window, p.long_window)
      [] name = "strategy_rsi_reversion" ->
            strategy_rsi_reversion(df, p.rsi_period, p.buy_threshold, p.sell_threshold)
      [] name = "RsiMeanReversionStrategy" ->
            RsiMeanReversionStrategy_run(df, p.rsi_period, p.buy_threshold,
                                         p.sell_threshold)
      [] name = "LiquidityCrisisStrategy" ->
            LiquidityCrisisStrategy_run(df, p.lookback, p.percentile, p.hold_days)

\* data.dropna(): the rows where every column has a value
dropna(idx, columns) == {t \in idx : \A c \in columns : t \in DOMAIN c}

\* run returns metrics; `data` is its local frame after line 62
run(df, name, params) ==
    LET idx == Index(df)
        close == close_column(df)
        signal == strategy_func(name, df, params)
        market_return == pct_change(close)
        lagged == shift(signal, idx)
        strategy_return ==
            [t \in DOMAIN lagged \cap DOMAIN market_return |->
                fmul(lagged[t], market_return[t])]
        kept == dropna(idx, {close, signal, market_return, strategy_return})
        sr == [t \in kept |-> strategy_return[t]]
        metrics == calculate_metrics(Values(sr))
        curve == cumprod1p(Values(sr))
    IN  [data |-> [signal |-> [t \in kept |-> signal[t]],
                   market_return |-> [t \in kept |-> market_return[t]],
                   strategy_return |-> sr],
         metrics |-> [k \in DOMAIN metrics \cup {"equity_curve"} |->
                         IF k = "equity_curve" THEN curve ELSE metrics[k]]]

\* --- BacktestEngine.optimize (lines 69-88) ---

\* param_grid is a dict in insertion order: a sequence of <<key, values>>.
\* itertools.product(*values): the last list varies fastest
RECURSIVE product(_)
product(grid) ==
    IF grid = <<>> THEN << <<>> >>
    ELSE LET rest == product(Tail(grid))
             vals == Head(grid)[2]
             n == Len(rest)
         IN  [i \in 1..(Len(vals) * n) |->
                 <<vals[((i - 1) \div n) + 1]>> \o rest[((i - 1) % n) + 1]]

\* dict(zip(keys, v))
zip_dict(grid, v) ==
    [k \in {grid[i][1] : i \in DOMAIN grid} |->
        v[CHOOSE i \in DOMAIN grid : grid[i][1] = k]]

\* The key of line 87: lambda x: x['metrics']['sharpe_ratio']
sharpe_key(x) == x.metrics["sharpe_ratio"]

\* results.sort(key=..., reverse=True) is stable: equal keys keep their order
sort_descending(results) ==
    LET n == Len(results)
        pos(i) == 1 + Cardinality({j \in 1..n :
                          \/ sharpe_key(results[j]) > sharpe_key(results[i])
                          \/ /\ sharpe_key(results[j]) = sharpe_key(results[i])
                             /\ j < i})
    IN  [p \in 1..n |-> results[CHOOSE i \in 1..n : pos(i) = p]]

\* Line 75 raises ValueError on an empty param_grid (zip(*[]) yields nothing
\* to unpack); line 87 raises KeyError when run returned no sharpe_ratio
optimize(df, name, grid) ==
    IF grid = <<>> THEN [raised |-> "ValueError", results |-> <<>>]
    ELSE LET combinations == [i \in DOMAIN product(grid) |->
                                 zip_dict(grid, product(grid)[i])]
             results == [i \in DOMAIN combinations |->
                            [params |-> combinations[i],
                             metrics |-> run(df, name, combinations[i]).metrics]]
         IN  IF \E i \in DOMAIN results : "sharpe_ratio" \notin DOMAIN results[i].metrics
             THEN [raised |-> "KeyError", results |-> <<>>]
             ELSE [raised |-> "no", results |-> sort_descending(results)]

\* --- The backtest session ---

MaxBars == 4
Frames == UNION {[1..n -> PriceLevels] : n \in 1..MaxBars}

\* The keyword arguments tried for each strategy
ParamChoices(name) ==
    CASE name = "strategy_sma_trend" ->
            [short_window : {1, 2}, long_window : {2, 3}]
      [] name = "SmaCrossStrategy" ->
            [short_window : {1}, long_window : {3}]
      [] name = "strategy_rsi_reversion" ->
            {[rsi_period |-> p, buy_threshold |-> b[1], sell_threshold |-> b[2]] :
                p \in {1, 2}, b \in {<<30, 70>>, <<70, 30>>}}
      [] name = "RsiMeanReversionStrategy" ->
            {[rsi_period |-> 3, buy_threshold |-> b[1], sell_threshold |-> b[2]] :
                b \in {<<30, 70>>, <<70, 30>>}}
      [] name = "LiquidityCrisisStrategy" ->
            [lookback : {1, 2}, percentile : {[num |-> 1, den |-> 20]},
             hold_days : {1, 2}]

\* Parameter grids for optimize: the empty dict, one key, two keys, a key
\* with no candidate, a candidate listed twice
Grids(name) ==
    IF name \in {"strategy_sma_trend", "SmaCrossStrategy"}
    THEN {<<>>,
          << <<"long_window", <<2, 3>> >> >>,
          << <<"short_window", <<1, 2>> >>, <<"long_window", <<2, 3>> >> >>,
          << <<"short_window", <<>> >>, <<"long_window", <<2>> >> >>,
          << <<"short_window", <<1, 1>> >>, <<"long_window", <<3, 2>> >> >>}
    ELSE IF name \in {"strategy_rsi_reversion", "RsiMeanReversionStrategy"}
    THEN {<<>>,
          << <<"rsi_period", <<1, 2>> >>, <<"buy_threshold", <<30, 70>> >>,
             <<"sell_threshold", <<70>> >> >>}
    ELSE {<<>>, << <<"lookback", <<1, 2>> >>, <<"hold_days", <<2, 1>> >> >>}

\* Daily-return series handed to calculate_metrics directly (backtest_view.py
\* line 111): up to three returns of 0, 3/8, -1/4 or 1
ReturnLevels == {0, (3 * One) \div 8, 0 - (One \div 4), One}
ReturnSeries == UNION {[1..n -> ReturnLevels] : n \in 0..3}

InitBacktest ==
    /\ BaseQuiet
    /\ FundQuiet
    /\ RankQuiet
    /\ rd = NoRead
    /\ TxQuiet
    /\ SchedQuiet
    /\ bt_df \in Frames
    /\ bt_prev = NoCalc
    /\ bt_last = NoCalc
    /\ fx = NoCalc
    /\ ta = NoCalc

btOut == <<baseVars, fundVars, rankVars, rd, conns, schedVars, fx, ta>>

\* BacktestEngine.run(df, strategy_func, **params) on the loaded frame, with
\* the strategy and parameters of the run on the frame before if there was one
BtRun(name, params) ==
    /\ bt_last = NoCalc
    /\ bt_prev.op = "run" => (bt_prev.strategy = name /\ bt_prev.params = params)
    /\ bt_last' = [op |-> "run", df |-> bt_df, strategy |-> name, params |-> params,
                   result |-> run(bt_df, name, params)]
    /\ UNCHANGED <<bt_df, bt_prev, btOut>>

\* New price data is loaded (bars replaced, dropped or added) for the next
\* call; a run on the frame before is remembered
BtMutate(df) ==
    /\ df # bt_df
    /\ bt_df' = df
    /\ bt_prev' = IF bt_last.op = "run" THEN bt_last ELSE NoCalc
    /\ bt_last' = NoCalc
    /\ UNCHANGED btOut

BtOptimize(name, grid) ==
    /\ bt_last = NoCalc
    /\ bt_prev = NoCalc
    /\ bt_last' = [op |-> "optimize", df |-> bt_df, strategy |-> name, grid |-> grid,
                   result |-> optimize(bt_df, name, grid)]
    /\ UNCHANGED <<bt_df, bt_prev, btOut>>

BtMetrics(r) ==
    /\ bt_last = NoCalc
    /\ bt_prev = NoCalc
    /\ bt_last' = [op |-> "calculate_metrics", returns |-> r,
                   result |-> calculate_metrics(r)]
    /\ UNCHANGED <<bt_df, bt_prev, btOut>>

NextBacktest ==
    \/ \E name \in StrategyNames : \E params \in ParamChoices(name) : BtRun(name, params)
    \/ \E df \in Frames : BtMutate(df)
    \/ \E name \in StrategyNames : \E grid \in Grids(name) : BtOptimize(name, grid)
    \/ \E r \in ReturnSeries : BtMetrics(r)

\* Backtests, grid searches and metric computations over price frames that
\* are reloaded between the calls
SpecBacktest == InitBacktest /\ [][NextBacktest]_vars

----------------------------------------------------------------------------
(* Claims about the backtest engine *)

IsRun(c) == c.op = "run"
SignalOf(c) == strategy_func(c.strategy, c.df, c.params)
SameUpTo(df1, df2, t) ==
    /\ t <= Len(df1)
    /\ t <= Len(df2)
    /\ \A u \in 1..t : df1[u] = df2[u]

AllEqual(r) == \A i, j \in DOMAIN r : r[i] = r[j]
AllZero(r) == \A i \in DOMAIN r : r[i] = 0

\* C22: division-safe metrics.  For a return series whose values are all
\* equal calculate_metrics reports a Sharpe ratio of 0, and for the all-zero
\* series also a total return of 0 and a maximum drawdown of 0; so does a
\* backtest on a constant price series.
C22_DivisionSafe ==
    /\ (bt_last.op = "calculate_metrics" /\ bt_last.returns # <<>>
            /\ AllEqual(bt_last.returns)) =>
          /\ bt_last.result.sharpe_ratio = 0
          /\ AllZero(bt_last.returns) =>
                /\ bt_last.result.total_return = 0
                /\ bt_last.result.max_drawdown = 0
    /\ (IsRun(bt_last) /\ Len(bt_last.df) >= 2 /\ AllEqual(bt_last.df)) =>
          /\ bt_last.result.metrics["sharpe_ratio"] = 0
          /\ bt_last.result.metrics["total_return"] = 0
          /\ bt_last.result.metrics["max_drawdown"] = 0

\* The number of combinations of a grid, and how often one is listed
RECURSIVE LengthProduct(_)
LengthProduct(grid) ==
    IF grid = <<>> THEN 1 ELSE Len(Head(grid)[2]) * LengthProduct(Tail(grid))
RECURSIVE Multiplicity(_, _)
Multiplicity(grid, params) ==
    IF grid = <<>> THEN 1
    ELSE Cardinality({i \in DOMAIN Head(grid)[2] :
                         Head(grid)[2][i] = params[Head(grid)[1]]})
            * Multiplicity(Tail(grid), params)
GridKeys(grid) == {grid[i][1] : i \in DOMAIN grid}

\* C23: grid search.  For every parameter grid optimize returns one result
\* per element of the Cartesian product of the candidate lists: as many
\* results as the product of the list lengths, each combination as often as
\* the lists name it, ordered by Sharpe ratio, descending.
C23_GridSearch ==
    bt_last.op = "optimize" =>
        LET res == bt_last.result.results
            grid == bt_last.grid
        IN  /\ bt_last.result.raised = "no"
            /\ Len(res) = LengthProduct(grid)
            /\ \A i \in DOMAIN res :
                  /\ DOMAIN res[i].params = GridKeys(grid)
                  /\ Cardinality({j \in DOMAIN res : res[j].params = res[i].params})
                        = Multiplicity(grid, res[i].params)
                  /\ res[i].metrics = run(bt_last.df, bt_last.strategy,
                                          res[i].params).metrics
            /\ \A i, j \in DOMAIN res :
                  i < j => res[i].metrics["sharpe_ratio"] >= res[j].metrics["sharpe_ratio"]

\* The position the two-state machine holds at the end of date t
RECURSIVE Position(_, _)
Position(c, t) ==
    IF t = 0 THEN 0
    ELSE IF rsi_above(c.df, t, c.params.rsi_period, c.params.sell_threshold) THEN 0
    ELSE IF rsi_below(c.df, t, c.params.rsi_period, c.params.buy_threshold) THEN One
    ELSE Position(c, t - 1)
IsRsiRun(c) ==
    IsRun(c) /\ c.strategy \in {"strategy_rsi_reversion", "RsiMeanReversionStrategy"}

\* C29: the RSI mean-reversion signal is a two-state machine over the dates:
\* it starts at 0, is 1 on a date where RSI < buy_threshold, 0 on a date
\* where RSI > sell_threshold (the exit wins when both hold), and the signal
\* of the date before on every other date; it is always 0 or 1.
C29_RsiStateMachine ==
    IsRsiRun(bt_last) =>
        /\ DOMAIN SignalOf(bt_last) = Index(bt_last.df)
        /\ \A t \in Index(bt_last.df) :
              /\ SignalOf(bt_last)[t] = Position(bt_last, t)
              /\ SignalOf(bt_last)[t] \in {0, One}

\* A run in which the position was entered, then held over a date with no
\* condition, and a date on which both conditions held
C29_Witness ==
    /\ IsRsiRun(bt_last)
    /\ \E t \in Index(bt_last.df) :
          /\ rsi_above(bt_last.df, t, bt_last.params.rsi_period,
                       bt_last.params.sell_threshold)
          /\ rsi_below(bt_last.df, t, bt_last.params.rsi_period,
                       bt_last.params.buy_threshold)
          /\ SignalOf(bt_last)[t] = 0

----------------------------------------------------------------------------
(* StockSelectionEngine: the Altman Z-Score of calculate_factors and the    *)
(* Magic Formula ranking, over the dicts get_latest_fundamentals returns    *)

\* A Python value read from batch_fundamentals: None (the key is not in the
\* dict), float NaN (the pivot has the column but no value for the ticker),
\* or a number, kept as an exact fraction n / d in lowest terms
PyNone == [kind |-> "None"]
FloatNaN == [kind |-> "NaN"]
RECURSIVE GCD(_, _)
GCD(a, b) == IF b = 0 THEN a ELSE GCD(b, a % b)
AbsInt(n) == IF n < 0 THEN 0 - n ELSE n
Num(n, d) ==
    LET g == IF n = 0 THEN d ELSE GCD(AbsInt(n), d)
    IN  [kind |-> "num", n |-> n \div g, d |-> d \div g]
IsNum(x) == x.kind = "num"

\* bool(x): None and 0 are falsy, NaN and every other number are truthy
py_bool(x) == x.kind = "NaN" \/ (x.kind = "num" /\ x.n # 0)
\* a or b
py_or(a, b) == IF py_bool(a) THEN a ELSE b
\* pd.isna(x)
pd_isna(x) == x.kind \in {"None", "NaN"}

\* Float arithmetic and comparison: NaN propagates, a comparison with NaN is
\* False
f_add(a, b) == IF IsNum(a) /\ IsNum(b) THEN Num(a.n * b.d + b.n * a.d, a.d * b.d)
               ELSE FloatNaN
f_sub(a, b) == IF IsNum(a) /\ IsNum(b) THEN Num(a.n * b.d - b.n * a.d, a.d * b.d)
               ELSE FloatNaN
f_mul(a, b) == IF IsNum(a) /\ IsNum(b) THEN Num(a.n * b.n, a.d * b.d) ELSE FloatNaN
f_div(a, b) == IF IsNum(a) /\ IsNum(b)
               THEN IF b.n > 0 THEN Num(a.n * b.d, a.d * b.n)
                    ELSE Num((0 - a.n) * b.d, a.d * (0 - b.n))
               ELSE FloatNaN
f_gt(a, b) == IsNum(a) /\ IsNum(b) /\ a.n * b.d > b.n * a.d
f_ne(a, b) == ~(IsNum(a) /\ IsNum(b) /\ a.n * b.d = b.n * a.d)
Zero == Num(0, 1)

\* metrics.get(key)
dict_get(metrics, key) == IF key \in DOMAIN metrics THEN metrics[key] ELSE PyNone

\* get_latest_fundamentals (store.py lines 249-255) on the latest rows
\* `stored` (ticker -> metric -> number): the pivot has one row per ticker
\* with a row and one column per metric any of them has; a hole is NaN
batch_fundamentals(stored, tickers, metrics) ==
    LET found == {t \in tickers : DOMAIN stored[t] \cap metrics # {}}
        columns == UNION {DOMAIN stored[t] \cap metrics : t \in found}
    IN  [t \in found |->
            [m \in columns |-> IF m \in DOMAIN stored[t] THEN stored[t][m] ELSE FloatNaN]]

fund_metrics_list ==
    {"Net Income", "Stockholders Equity", "Total Equity Gross Minority Interest",
     "Ebit", "Total Assets", "Current Assets", "Current Liabilities",
     "Retained Earnings", "Total Revenue", "Total Debt",
     "Total Liabilities Net Minority Interest", "Basic Average Shares"}

\* calculate_factors, lines 80-119, for one ticker whose last close is
\* current_price: roe, z_score and the components of the score (Unset when
\* line 100 is false)
Unset == [kind |-> "unset"]
ticker_factors(metrics, current_price) ==
    LET net_income == dict_get(metrics, "Net Income")
        equity == py_or(dict_get(metrics, "Stockholders Equity"),
                        dict_get(metrics, "Total Equity Gross Minority Interest"))
        roe == IF py_bool(net_income) /\ py_bool(equity) /\ f_ne(equity, Zero)
               THEN f_div(net_income, equity) ELSE FloatNaN
        total_assets == dict_get(metrics, "Total Assets")
        current_assets == dict_get(metrics, "Current Assets")
        current_liab == dict_get(metrics, "Current Liabilities")
        retained_earnings == dict_get(metrics, "Retained Earnings")
        ebit == dict_get(metrics, "Ebit")
        total_liab == py_or(dict_get(metrics, "Total Liabilities Net Minority Interest"),
                            IF py_bool(total_assets) /\ py_bool(equity)
                            THEN f_sub(total_assets, equity) ELSE PyNone)
        revenue == dict_get(metrics, "Total Revenue")
        shares == dict_get(metrics, "Basic Average Shares")
        A == IF py_bool(current_assets) /\ py_bool(current_liab)
             THEN f_div(f_sub(current_assets, current_liab), total_assets) ELSE Zero
        B == IF py_bool(retained_earnings) THEN f_div(retained_earnings, total_assets)
             ELSE Zero
        C == IF py_bool(ebit) THEN f_div(ebit, total_assets) ELSE Zero
        market_cap == f_mul(current_price, shares)
        D == IF py_bool(shares)
             THEN IF py_bool(total_liab) /\ f_gt(total_liab, Zero)
                  THEN f_div(market_cap, total_liab) ELSE Zero
             ELSE IF py_bool(equity) /\ py_bool(total_liab) /\ f_gt(total_liab, Zero)
                  THEN f_div(equity, total_liab) ELSE Zero
        E == IF py_bool(revenue) THEN f_div(revenue, total_assets) ELSE Zero
        z == f_add(f_add(f_add(f_add(f_mul(Num(12, 10), A), f_mul(Num(14, 10), B)),
                               f_mul(Num(33, 10), C)),
                         f_mul(Num(6, 10), D)),
                   f_mul(Num(10, 10), E))
    IN  IF py_bool(total_assets) /\ f_gt(total_assets, Zero)
        THEN [roe |-> roe, z_score |-> z, A |-> A, B |-> B, C |-> C, D |-> D, E |-> E]
        ELSE [roe |-> roe, z_score |-> FloatNaN, A |-> Unset, B |-> Unset, C |-> Unset,
              D |-> Unset, E |-> Unset]

\* calculate_factors(tickers), lines 50-130: one row per ticker that has
\* bars, in the order of tickers.  momentum_12m and volatility, computed from
\* the bars alone, are left out.
RECURSIVE calculate_factors(_, _, _)
calculate_factors(stored, prices, tickers) ==
    IF tickers = <<>> THEN <<>>
    ELSE LET ticker == tickers[Len(tickers)]
             batch == batch_fundamentals(stored, {tickers[i] : i \in DOMAIN tickers},
                                         fund_metrics_list)
             metrics == IF ticker \in DOMAIN batch THEN batch[ticker] ELSE <<>>
             before == calculate_factors(stored, prices,
                                         SubSeq(tickers, 1, Len(tickers) - 1))
         IN  IF prices[ticker] = PyNone THEN before
             ELSE Append(before,
                         [ticker |-> ticker, close |-> prices[ticker],
                          factors |-> ticker_factors(metrics, prices[ticker])])

mf_metrics ==
    {"Ebit", "Net Income", "Total Debt", "Total Equity Gross Minority Interest",
     "Cash And Cash Equivalents", "Total Assets", "Current Liabilities",
     "Basic Average Shares", "Diluted EPS"}

\* rank_magic_formula, lines 229-270, for one ticker: roc, earnings_yield
\* and method
magic_components(metrics, current_price) ==
    LET ebit == dict_get(metrics, "Ebit")
        total_debt == py_or(dict_get(metrics, "Total Debt"), Zero)
        cash == py_or(dict_get(metrics, "Cash And Cash Equivalents"), Zero)
        shares == dict_get(metrics, "Basic Average Shares")
        total_assets == dict_get(metrics, "Total Assets")
        current_liab == dict_get(metrics, "Current Liabilities")
        market_cap == f_mul(current_price, shares)
        ev == f_sub(f_add(market_cap, total_debt), cash)
        capital_employed == f_sub(total_assets, current_liab)
        strict == /\ py_bool(ebit) /\ py_bool(shares)
                  /\ py_bool(total_assets) /\ py_bool(current_liab)
                  /\ f_gt(ev, Zero) /\ f_gt(capital_employed, Zero)
        roc1 == IF strict THEN f_div(ebit, capital_employed) ELSE FloatNaN
        ey1 == IF strict THEN f_div(ebit, ev) ELSE FloatNaN
        net_income == dict_get(metrics, "Net Income")
        eps == dict_get(metrics, "Diluted EPS")
        fallback == pd_isna(roc1) \/ pd_isna(ey1)
        roc2 == IF fallback /\ py_bool(net_income) /\ py_bool(total_assets)
                   /\ f_ne(total_assets, Zero)
                THEN f_div(net_income, total_assets) ELSE roc1
        ey2 == IF fallback /\ py_bool(eps) /\ py_bool(current_price)
                  /\ f_ne(current_price, Zero)
               THEN f_div(eps, current_price) ELSE ey1
    IN  [roc |-> roc2, earnings_yield |-> ey2,
         method |-> IF strict THEN "Strict" ELSE "Proxy"]

\* Lines 221-278: the rows of `data`, in the order of tickers
RECURSIVE magic_rows(_, _, _)
magic_rows(batch, prices, tickers) ==
    IF tickers = <<>> THEN <<>>
    ELSE LET ticker == tickers[Len(tickers)]
             metrics == IF ticker \in DOMAIN batch THEN batch[ticker] ELSE <<>>
             before == magic_rows(batch, prices, SubSeq(tickers, 1, Len(tickers) - 1))
             c == magic_components(metrics, prices[ticker])
         IN  IF prices[ticker] = PyNone THEN before
             ELSE IF pd_isna(c.roc) \/ pd_isna(c.earnings_yield) THEN before
             ELSE Append(before, [ticker |-> ticker, roc |-> c.roc,
                                  earnings_yield |-> c.earnings_yield,
                                  close |-> prices[ticker], method |-> c.method])

\* Series.rank(ascending=False), method 'average': the mean of the positions
\* the equal values take
rank_descending(rows, col, i) ==
    f_add(Num(Cardinality({j \in DOMAIN rows : f_gt(rows[j][col], rows[i][col])}), 1),
          Num(Cardinality({j \in DOMAIN rows : ~f_ne(rows[j][col], rows[i][col])}) + 1, 2))

\* Lines 285-287
with_magic_score(rows) ==
    [i \in DOMAIN rows |->
        [ticker |-> rows[i].ticker, roc |-> rows[i].roc,
         earnings_yield |-> rows[i].earnings_yield, close |-> rows[i].close,
         method |-> rows[i].method,
         rank_roc |-> rank_descending(rows, "roc", i),
         rank_ey |-> rank_descending(rows, "earnings_yield", i),
         score |-> f_add(rank_descending(rows, "roc", i),
                         rank_descending(rows, "earnings_yield", i))]]

\* Lines 288-289, df.sort_values('magic_score', ascending=True): the frames
\* that hold the same rows in ascending order of score (equal scores in any
\* order: the sort is not a stable one)
sort_values(rows) ==
    {[i \in DOMAIN rows |-> rows[p[i]]] : p \in
        {q \in Permutations(DOMAIN rows) :
            \A i, j \in DOMAIN rows :
                i < j => ~f_gt(rows[q[i]].score, rows[q[j]].score)}}

\* --- The scoring session ---

FactorTickers == <<"AAPL", "MSFT", "NVDA">>
N(n) == Num(n, 1)

\* A dict of the line items that have a value
dict_of(f) == [k \in {x \in DOMAIN f : f[x] # PyNone} |-> f[k]]

\* Line items of AAPL for the Z-Score: each one stored or not, some of them
\* stored as 0 or as a negative amount
ZScoreProfiles ==
    {dict_of("Total Assets" :> p.ta @@ "Current Assets" :> p.ca
             @@ "Current Liabilities" :> p.cl @@ "Retained Earnings" :> p.re
             @@ "Ebit" :> p.ebit @@ "Total Revenue" :> p.rev
             @@ "Total Liabilities Net Minority Interest" :> p.tl
             @@ "Stockholders Equity" :> p.eq @@ "Basic Average Shares" :> p.sh) :
        p \in [ta : {PyNone, N(0), N(-10), N(10)}, ca : {PyNone, N(6)},
               cl : {PyNone, N(0), N(4)}, re : {PyNone, N(0), N(-2)},
               ebit : {PyNone, N(1)}, rev : {PyNone, N(20)}, tl : {PyNone, N(5)},
               eq : {PyNone, N(5)}, sh : {PyNone, N(0), N(10)}]}

\* Line items of AAPL for the Magic Formula
MagicProfiles ==
    {dict_of("Ebit" :> p.ebit @@ "Basic Average Shares" :> p.sh
             @@ "Total Assets" :> p.ta @@ "Current Liabilities" :> p.cl
             @@ "Total Debt" :> p.debt @@ "Cash And Cash Equivalents" :> p.cash
             @@ "Net Income" :> p.ni @@ "Diluted EPS" :> p.eps) :
        p \in [ebit : {PyNone, N(0), N(500)}, sh : {PyNone, N(100)},
               ta : {PyNone, N(5000), N(800)}, cl : {PyNone, N(0), N(1000)},
               debt : {PyNone, N(200)}, cash : {PyNone, N(50), N(9000)},
               ni : {PyNone, N(300)}, eps : {PyNone, N(3)}]}

\* A company with every line item, one with the items of the proxy only and
\* one with no row in the table
FullCompany ==
    dict_of("Total Assets" :> N(40) @@ "Current Assets" :> N(20)
            @@ "Current Liabilities" :> N(10) @@ "Retained Earnings" :> N(8)
            @@ "Ebit" :> N(6) @@ "Total Revenue" :> N(30)
            @@ "Total Liabilities Net Minority Interest" :> N(20)
            @@ "Stockholders Equity" :> N(20) @@ "Basic Average Shares" :> N(10)
            @@ "Total Debt" :> N(5) @@ "Cash And Cash Equivalents" :> N(5)
            @@ "Net Income" :> N(4) @@ "Diluted EPS" :> N(1))
ProxyCompany ==
    dict_of("Total Assets" :> N(5000) @@ "Net Income" :> N(300)
            @@ "Diluted EPS" :> N(3))
NoRows == <<>>

\* The fundamentals table and the last closes when a ranking is computed;
\* NVDA may have no rows or no bars
Datasets ==
    {[stored |-> "AAPL" :> a @@ "MSFT" :> m @@ "NVDA" :> n[1],
      prices |-> "AAPL" :> N(50) @@ "MSFT" :> N(8) @@ "NVDA" :> n[2]] :
        a \in ZScoreProfiles \cup MagicProfiles, m \in {NoRows, FullCompany},
        n \in {<<NoRows, N(50)>>, <<ProxyCompany, N(50)>>, <<ProxyCompany, PyNone>>}}

NoResult == [raised |-> FALSE, df |-> <<>>]

InitFactors ==
    /\ BaseQuiet
    /\ FundQuiet
    /\ RankQuiet
    /\ rd = NoRead
    /\ TxQuiet
    /\ SchedQuiet
    /\ bt_df = <<>>
    /\ bt_prev = NoCalc
    /\ bt_last = NoCalc
    /\ \E d \in Datasets :
          fx = [op |-> "loaded", stored |-> d.stored, prices |-> d.prices,
                result |-> NoResult]
    /\ ta = NoCalc

fxOut == <<baseVars, fundVars, rk_last, rk_runs, rd, conns, schedVars,
           bt_df, bt_prev, bt_last, ta>>

\* calculate_factors(tickers) over the universe
FxFactors ==
    /\ fx' = [fx EXCEPT !.op = "calculate_factors",
                 !.result = [raised |-> FALSE,
                             df |-> calculate_factors(fx.stored, fx.prices,
                                                      FactorTickers)]]
    /\ UNCHANGED <<ranking_history, fxOut>>

\* rank_magic_formula(tickers) over the universe: the frame, then (lines
\* 272-310) nothing more for an empty frame, else the previous ranking is
\* read (readOk = FALSE: sqlite raises and so does the call), rank_change is
\* set and the history is saved
FxMagic(readOk, dbOk) ==
    \E df \in sort_values(with_magic_score(
                 magic_rows(batch_fundamentals(fx.stored, Elems(FactorTickers),
                                               mf_metrics),
                            fx.prices, FactorTickers))) :
        LET prev == get_previous_rankings(ranking_history, "magic_formula", today)
            changes == rank_change(df, prev)
            out == [i \in DOMAIN df |->
                      [ticker |-> df[i].ticker, roc |-> df[i].roc,
                       earnings_yield |-> df[i].earnings_yield,
                       close |-> df[i].close, method |-> df[i].method,
                       rank_roc |-> df[i].rank_roc, rank_ey |-> df[i].rank_ey,
                       score |-> df[i].score, rank_change |-> changes[i]]]
        IN IF df = <<>>
           THEN /\ fx' = [fx EXCEPT !.op = "rank_magic_formula", !.result = NoResult]
                /\ UNCHANGED <<ranking_history, fxOut>>
           ELSE IF ~readOk
           THEN /\ fx' = [fx EXCEPT !.op = "rank_magic_formula",
                                    !.result = [raised |-> TRUE, df |-> <<>>]]
                /\ UNCHANGED <<ranking_history, fxOut>>
           ELSE /\ fx' = [fx EXCEPT !.op = "rank_magic_formula",
                                    !.result = [raised |-> FALSE, df |-> out]]
                /\ ranking_history' =
                      save_ranking_history(ranking_history, "magic_formula", out,
                                           today, dbOk)
                /\ UNCHANGED fxOut

NextFactors ==
    \/ FxFactors
    \/ \E readOk \in BOOLEAN, dbOk \in BOOLEAN : FxMagic(readOk, dbOk)

\* Factor and Magic Formula computations over the stored fundamentals
SpecFactors == InitFactors /\ [][NextFactors]_vars

----------------------------------------------------------------------------
(* Claims about the factor engine *)

\* The line item of a ticker as the table holds it
Stored(t, k) == fx.stored[t][k]
Has(t, k) == k \in DOMAIN fx.stored[t]
HasAll(t, K) == \A k \in K : Has(t, k)
Ratio(a, b) == f_div(a, b)

\* C25: Altman Z-Score missing-data rule.  In every frame calculate_factors
\* returns, the Z-Score of a ticker is undefined exactly when its total
\* assets are missing or not positive; when it is defined, a component with
\* a missing input is 0 and a component whose inputs are all stored, zero
\* values included, is its formula value: A = (current assets - current
\* liabilities) / total assets, B = retained earnings / total assets,
\* C = EBIT / total assets, E = revenue / total assets, and D = market cap /
\* total liabilities when shares and positive total liabilities are stored.
C25_ZScoreMissingData ==
    fx.op = "calculate_factors" =>
        \A i \in DOMAIN fx.result.df :
            LET row == fx.result.df[i]
                t == row.ticker
                f == row.factors
                defined == Has(t, "Total Assets") /\ f_gt(Stored(t, "Total Assets"), Zero)
                total == Stored(t, "Total Assets")
                Component(inputs, value) ==
                    IF HasAll(t, inputs) THEN value ELSE Zero
            IN  /\ pd_isna(f.z_score) <=> ~defined
                /\ defined =>
                    /\ f.A = Component({"Current Assets", "Current Liabilities"},
                                Ratio(f_sub(Stored(t, "Current Assets"),
                                            Stored(t, "Current Liabilities")), total))
                    /\ f.B = Component({"Retained Earnings"},
                                Ratio(Stored(t, "Retained Earnings"), total))
                    /\ f.C = Component({"Ebit"}, Ratio(Stored(t, "Ebit"), total))
                    /\ f.E = Component({"Total Revenue"},
                                Ratio(Stored(t, "Total Revenue"), total))
                    /\ (/\ HasAll(t, {"Basic Average Shares",
                                      "Total Liabilities Net Minority Interest"})
                        /\ f_gt(Stored(t, "Total Liabilities Net Minority Interest"), Zero))
                       => f.D = Ratio(f_mul(row.close, Stored(t, "Basic Average Shares")),
                                      Stored(t, "Total Liabilities Net Minority Interest"))

\* The ranked row of a ticker, if it has one
IsMagic == fx.op = "rank_magic_formula" /\ ~fx.result.raised
Ranked(t) == \E i \in DOMAIN fx.result.df : fx.result.df[i].ticker = t
RowOf(t) == fx.result.df[CHOOSE i \in DOMAIN fx.result.df : fx.result.df[i].ticker = t]
StoredOr(t, k, default) == IF Has(t, k) THEN Stored(t, k) ELSE default
StrictFields == {"Ebit", "Basic Average Shares", "Total Assets", "Current Liabilities"}
OptionalFields == {"Total Debt", "Cash And Cash Equivalents"}
ProxyFields == {"Net Income", "Total Assets", "Diluted EPS"}
StrictRoc(t) == Ratio(Stored(t, "Ebit"),
                      f_sub(Stored(t, "Total Assets"), Stored(t, "Current Liabilities")))
StrictEy(t) ==
    Ratio(Stored(t, "Ebit"),
          f_sub(f_add(f_mul(fx.prices[t], Stored(t, "Basic Average Shares")),
                      StoredOr(t, "Total Debt", Zero)),
                StoredOr(t, "Cash And Cash Equivalents", Zero)))
\* Twice the rank of row i in descending order of a column, equal values
\* sharing the mean of their positions
TwiceRank(df, col, i) ==
    2 * Cardinality({k \in DOMAIN df : f_gt(df[k][col], df[i][col])})
      + Cardinality({k \in DOMAIN df : df[k][col] = df[i][col]}) + 1
TwiceScore(df, i) == TwiceRank(df, "roc", i) + TwiceRank(df, "earnings_yield", i)

\* C24: Magic Formula.  For every ticker with bars: a row of method "Strict"
\* has its shares, EBIT, total assets and current liabilities stored and
\* holds ROC = EBIT / (total assets - current liabilities) and EY = EBIT /
\* (price x shares + debt - cash); a ticker with all of these fields stored
\* is ranked with method "Strict"; a row of method "Proxy" holds ROA and
\* EPS / price; a ticker is ranked when the fields of one of the two modes
\* are stored and only when both components are defined; the rows are in
\* ascending order of rank(ROC desc) + rank(EY desc).
C24_MagicFormula ==
    IsMagic =>
        /\ \A t \in Elems(FactorTickers) :
              fx.prices[t] # PyNone =>
                /\ (Ranked(t) /\ RowOf(t).method = "Strict") =>
                      /\ HasAll(t, StrictFields)
                      /\ RowOf(t).roc = StrictRoc(t)
                      /\ RowOf(t).earnings_yield = StrictEy(t)
                /\ HasAll(t, StrictFields \cup OptionalFields) =>
                      (Ranked(t) /\ RowOf(t).method = "Strict")
                /\ (Ranked(t) /\ RowOf(t).method = "Proxy") =>
                      /\ HasAll(t, ProxyFields)
                      /\ RowOf(t).roc = Ratio(Stored(t, "Net Income"),
                                              Stored(t, "Total Assets"))
                      /\ RowOf(t).earnings_yield = Ratio(Stored(t, "Diluted EPS"),
                                                         fx.prices[t])
                /\ HasAll(t, ProxyFields) => Ranked(t)
                /\ Ranked(t) => (IsNum(RowOf(t).roc) /\ IsNum(RowOf(t).earnings_yield))
        /\ \A t \in Elems(FactorTickers) : fx.prices[t] = PyNone => ~Ranked(t)
        /\ \A i, j \in DOMAIN fx.result.df :
              i < j => TwiceScore(fx.result.df, i) <= TwiceScore(fx.result.df, j)

----------------------------------------------------------------------------
(* TechnicalAnalysis.check_trend_setup and the overlay of rank_stocks       *)

MIN_TREND_BARS == 200
MIN_OVERLAY_BARS == 50
TA_TOP_N == 20

f_abs(a) == IF IsNum(a) THEN Num(AbsInt(a.n), a.d) ELSE FloatNaN
f_lt(a, b) == f_gt(b, a)

\* A price frame after add_indicators is kept as check_trend_setup reads it:
\* the number of rows and the columns of the last row.
\* The decision with the MACD test ahead of the SMA-20 test
check_trend_setup_macd_first(df) ==
    IF df.bars = 0 \/ df.bars < MIN_TREND_BARS
    THEN [trend |-> "Unknown", ta_signal |-> "Wait/No Data"]
    ELSE LET trend == IF f_gt(df.close, df.sma_200) THEN "Bullish" ELSE "Bearish"
             macd_bullish == f_gt(df.macd_line, df.macd_signal)
             dist_sma20 == f_div(f_sub(df.close, df.sma_20), df.sma_20)
             near_support == f_lt(f_abs(dist_sma20), Num(2, 100))
         IN  [trend |-> trend,
              ta_signal |->
                 IF trend = "Bullish"
                 THEN IF macd_bullish THEN "Buy (Trend)"
                      ELSE IF near_support THEN "Buy (Support Bounce)"
                      ELSE "Neutral"
                 ELSE IF macd_bullish THEN "Cautious (Rebound)"
                      ELSE "Sell / Avoid"]

\* check_trend_setup(df), lines 37-73
check_trend_setup(df) ==
    IF df.bars = 0 \/ df.bars < MIN_TREND_BARS
    THEN [trend |-> "Unknown", ta_signal |-> "Wait/No Data"]
    ELSE LET trend == IF f_gt(df.close, df.sma_200) THEN "Bullish" ELSE "Bearish"
             macd_bullish == f_gt(df.macd_line, df.macd_signal)
             dist_sma20 == f_div(f_sub(df.close, df.sma_20), df.sma_20)
             near_support == f_lt(f_abs(dist_sma20), Num(2, 100))
         IN  [trend |-> trend,
              ta_signal |->
                 IF trend = "Bullish"
                 THEN IF near_support THEN "Buy (Support Bounce)"
                      ELSE IF macd_bullish THEN "Buy (Trend)"
                      ELSE "Neutral"
                 ELSE IF macd_bullish THEN "Cautious (Rebound)"
                      ELSE "Sell / Avoid"]

\* rank_stocks, lines 166-182: the overlay of the row at `index` (0-based) of
\* the sorted frame, whose bars are price_df
ta_overlay(index, price_df) ==
    IF index >= TA_TOP_N THEN [trend_status |-> "N/A", ta_action |-> "Hold"]
    ELSE IF price_df.bars < MIN_OVERLAY_BARS
    THEN [trend_status |-> "Insuff. Data", ta_action |-> "Wait"]
    ELSE LET setup == check_trend_setup(price_df)
         IN  [trend_status |-> setup.trend, ta_action |-> setup.ta_signal]

\* --- The overlay session ---

\* The sorted frame of a ranking of 21 tickers
OverlayTickers ==
    <<"T01", "T02", "T03", "T04", "T05", "T06", "T07", "T08", "T09", "T10", "T11",
      "T12", "T13", "T14", "T15", "T16", "T17", "T18", "T19", "T20", "T21">>

\* Histories of 0 to 250 bars; SMA-20 and SMA-200 exist from the 20th and the
\* 200th bar on (NaN before, and NaN after a bar without a close)
BarCounts == {0, 49, 50, 199, 200, 250}
PriceFrames ==
    {s \in [bars : BarCounts, close : {N(100), N(102), N(103)},
            sma_20 : {N(100), N(102), FloatNaN}, sma_200 : {N(101), N(102), FloatNaN},
            macd_line : {N(-1), N(0), N(1)}, macd_signal : {N(0)}] :
        /\ s.bars < 20 => s.sma_20 = FloatNaN
        /\ s.bars < MIN_TREND_BARS => s.sma_200 = FloatNaN}
OtherFrame == [bars |-> 250, close |-> N(103), sma_20 |-> N(100), sma_200 |-> N(101),
               macd_line |-> N(1), macd_signal |-> N(0)]

InitOverlay ==
    /\ BaseQuiet
    /\ FundQuiet
    /\ RankQuiet
    /\ rd = NoRead
    /\ TxQuiet
    /\ SchedQuiet
    /\ bt_df = <<>>
    /\ bt_prev = NoCalc
    /\ bt_last = NoCalc
    /\ fx = NoCalc
    /\ \E pos \in {1, TA_TOP_N, TA_TOP_N + 1}, s \in PriceFrames :
          ta = [op |-> "loaded", ticker |-> OverlayTickers[pos],
                frames |-> [t \in Elems(OverlayTickers) |->
                               IF t = OverlayTickers[pos] THEN s ELSE OtherFrame],
                result |-> <<>>, raised |-> FALSE]

taOut == <<baseVars, fundVars, rk_last, rk_runs, rd, conns, schedVars,
           bt_df, bt_prev, bt_last, fx>>

\* check_trend_setup(add_indicators(df)) on the bars of one ticker, as the
\* scanners call it
TaCheck ==
    /\ ta' = [ta EXCEPT !.op = "check_trend_setup",
                        !.result = check_trend_setup(ta.frames[ta.ticker]),
                        !.raised = FALSE]
    /\ UNCHANGED <<ranking_history, taOut>>

\* rank_stocks from the sorted frame on (lines 162-205): the overlay of every
\* row, then the previous ranking is read (readOk = FALSE: sqlite raises
\* and so does the call), rank_change is set and the history is saved
TaRankStocks(readOk, dbOk) ==
    LET df == [i \in DOMAIN OverlayTickers |->
                  [ticker |-> OverlayTickers[i], score |-> 1]]
        ta_signals == [i \in DOMAIN df |-> ta_overlay(i - 1, ta.frames[df[i].ticker])]
        prev == get_previous_rankings(ranking_history, "smart_beta", today)
        changes == rank_change(df, prev)
        out == [i \in DOMAIN df |->
                  [ticker |-> df[i].ticker, score |-> df[i].score,
                   trend_status |-> ta_signals[i].trend_status,
                   ta_action |-> ta_signals[i].ta_action,
                   rank_change |-> changes[i]]]
    IN IF ~readOk
       THEN /\ ta' = [ta EXCEPT !.op = "rank_stocks", !.result = <<>>, !.raised = TRUE]
            /\ UNCHANGED <<ranking_history, taOut>>
       ELSE /\ ta' = [ta EXCEPT !.op = "rank_stocks", !.result = out, !.raised = FALSE]
            /\ ranking_history' =
                  save_ranking_history(ranking_history, "smart_beta", out, today, dbOk)
            /\ UNCHANGED taOut

NextOverlay ==
    \/ TaCheck
    \/ \E readOk \in BOOLEAN, dbOk \in BOOLEAN : TaRankStocks(readOk, dbOk)

\* Trend checks and smart-beta rankings over the stored bars
SpecOverlay == InitOverlay /\ [][NextOverlay]_vars

----------------------------------------------------------------------------
(* Claims about the technical overlay *)

ActionLabels == {"Buy (Support Bounce)", "Buy (Trend)", "Cautious (Rebound)",
                 "Sell / Avoid", "Neutral"}
Sentinels == {"Wait/No Data", "Wait"}
Bars(t) == ta.frames[t].bars
AboveSma200(t) == f_gt(ta.frames[t].close, ta.frames[t].sma_200)
MacdBullish(t) == f_gt(ta.frames[t].macd_line, ta.frames[t].macd_signal)
\* |close - sma_20| < 0.02 * sma_20
NearSma20(t) ==
    /\ IsNum(ta.frames[t].sma_20)
    /\ 50 * AbsInt(ta.frames[t].close.n * ta.frames[t].sma_20.d
                     - ta.frames[t].sma_20.n * ta.frames[t].close.d)
          < ta.frames[t].sma_20.n * ta.frames[t].close.d
LabelInOrder(t) ==
    IF AboveSma200(t) /\ NearSma20(t) THEN "Buy (Support Bounce)"
    ELSE IF AboveSma200(t) /\ MacdBullish(t) THEN "Buy (Trend)"
    ELSE IF ~AboveSma200(t) /\ MacdBullish(t) THEN "Cautious (Rebound)"
    ELSE IF ~AboveSma200(t) /\ ~MacdBullish(t) THEN "Sell / Avoid"
    ELSE "Neutral"
Classified(t, label) ==
    /\ Bars(t) < 200 => (label \in Sentinels /\ label \notin ActionLabels)
    /\ Bars(t) >= 200 => label = LabelInOrder(t)

\* C26 as stated: every ticker, in check_trend_setup and in every row of
\* the frame rank_stocks returns, is classified by the rule: under 200 bars
\* a Wait sentinel and never an action label; from 200 bars on the label
\* the five-way decision gives.
C26_OverlayEveryRow ==
    /\ (ta.op = "check_trend_setup") => Classified(ta.ticker, ta.result.ta_signal)
    /\ (ta.op = "rank_stocks" /\ ~ta.raised) =>
          \A i \in DOMAIN ta.result :
              Classified(ta.result[i].ticker, ta.result[i].ta_action)

\* C26, amended: the rule holds in check_trend_setup and for the first 20
\* rows of the frame rank_stocks returns; the rows after the 20th are not
\* classified and carry N/A / Hold whatever their history.
C26_OverlayTopRows ==
    /\ (ta.op = "check_trend_setup") => Classified(ta.ticker, ta.result.ta_signal)
    /\ (ta.op = "rank_stocks" /\ ~ta.raised) =>
          \A i \in DOMAIN ta.result :
              IF i <= 20
              THEN Classified(ta.result[i].ticker, ta.result[i].ta_action)
              ELSE /\ ta.result[i].trend_status = "N/A"
                   /\ ta.result[i].ta_action = "Hold"

\* A ranking whose 20th row has 200 bars or more, is above SMA-200, near
\* SMA-20 and MACD-bullish (the first rule wins) and whose 21st row is capped
C26_Witness ==
    /\ ta.op = "rank_stocks"
    /\ ~ta.raised
    /\ ta.ticker = OverlayTickers[20]
    /\ Bars(ta.ticker) >= 200
    /\ AboveSma200(ta.ticker) /\ NearSma20(ta.ticker) /\ MacdBullish(ta.ticker)
    /\ ta.result[20].ta_action = "Buy (Support Bounce)"
    /\ ta.result[21].ta_action = "Hold"

----------------------------------------------------------------------------
(* SyncScheduler: the loop threads over start() and stop()                  *)

\* The operating system runs every live loop thread and time passes
ThreadStep(i) == i \in DOMAIN threads /\ \E seconds \in SyncSeconds : LoopPass(i, seconds)
SpecSchedFair ==
    /\ InitSched
    /\ [][NextSched]_vars
    /\ WF_vars(Tick)
    /\ \A i \in 1..MaxThreads : WF_vars(ThreadStep(i))

\* The threads inside _run_loop
LoopThreads == {i \in DOMAIN threads : threads[i].pc = "sleeping"}
\* stop() was called after the thread was started: every thread but the
\* one start() made last, and that one too once running is False
AskedToStop(i) == i # thread \/ ~running

\* C27: at most one thread executes _run_loop whatever calls of start() and
\* stop() were made, and a loop thread that was asked to stop never resumes
\* polling: its next pass through the loop ends it.
C27_SingleLoopThread ==
    /\ [](Cardinality(LoopThreads) <= 1)
    /\ [][\A i \in DOMAIN threads :
             (AskedToStop(i) /\ threads[i].pc = "sleeping" /\ threads'[i] # threads[i])
                => threads'[i].pc = "exited"]_vars

Exited(i) == i \in DOMAIN threads /\ threads[i].pc = "exited"

\* C28: scheduler shutdown terminates.  While stop() is the last call made,
\* no sync is triggered by a pass that follows it and a pass of a loop thread
\* ends the thread; every loop thread whose sleep (or sync and sleep) ends
\* within the modelled time exits, unless the scheduler is started again.
C28_ShutdownTerminates ==
    /\ [][(sched_op = "stop" /\ sched_op' = "stop" /\ sched_calls' = sched_calls) =>
            /\ triggers' = triggers
            /\ \A i \in DOMAIN threads :
                  threads'[i] # threads[i] => threads'[i].pc = "exited"]_vars
    /\ \A i \in 1..MaxThreads :
          [](sched_op = "stop" /\ i \in DOMAIN threads /\ threads[i].wake <= MaxClock
               => <>(sched_op # "stop" \/ Exited(i)))

\* stop() returned while a loop thread was still in its sleep (the join
\* timed out), and nothing was started since
C28_Witness ==
    /\ sched_op = "stop"
    /\ ~running
    /\ \E i \in DOMAIN threads :
          /\ threads[i].pc = "sleeping"
          /\ threads[i].wake > clock
          /\ threads[i].wake <= MaxClock

----------------------------------------------------------------------------
(* Ranking runs repeated on one day *)

\* Two frames rank the same tickers with the same scores in the same order
SameRanking(df1, df2) ==
    /\ Len(df1) = Len(df2)
    /\ \A i \in DOMAIN df1 : df1[i].ticker = df2[i].ticker /\ df1[i].score = df2[i].score

\* C30: a ranking run that follows, on the same day, a run of the same
\* strategy over the same ranking reports the same rank_change for every
\* ticker: the records the earlier run wrote are not its baseline.
C30_SameDayRerun ==
    [][(/\ rk_last.op = "run" /\ rk_last'.op = "run"
        /\ rk_runs' = rk_runs + 1
        /\ rk_last'.strategy = rk_last.strategy
        /\ rk_last'.day = rk_last.day
        /\ SameRanking(rk_last.df, rk_last'.df))
          => /\ rk_last'.prev = rk_last.prev
             /\ \A i \in DOMAIN rk_last.df :
                   rk_last'.df[i].rank_change = rk_last.df[i].rank_change]_vars

\* The run was made over a history that already held, for its day, the very
\* ranking it computes, and it reports a move for a ticker against an
\* earlier day
C30_Witness ==
    /\ rk_last.op = "run"
    /\ rk_runs >= 2
    /\ \A i \in DOMAIN rk_last.df :
          \E r \in rk_last.before :
              /\ r.strategy = rk_last.strategy /\ r.date = rk_last.day
              /\ r.ticker = rk_last.df[i].ticker /\ r.rank = i
    /\ \E i \in DOMAIN rk_last.df :
          /\ ~rk_last.df[i].rank_change.isNone
          /\ rk_last.df[i].rank_change.value # 0

====
